---- MODULE Spec2Model ----
(***************************************************************************)
(* Block extraction for the semi-structured document annotation tool:      *)
(* the geometry classes of utils/block_helper.py and the page-to-blocks    *)
(* functions of lambdas/pre_human_task_lambda.py.                          *)
(*                                                                         *)
(* Coordinates are exact numbers.  The Python code works on floats; the    *)
(* model keeps them as integers: a raw BoundingBox field is an integer,    *)
(* and a page-normalised coordinate v / page_dim is kept in units of       *)
(* 1 / (page width * page height) (see Norm).                              *)
(***************************************************************************)
EXTENDS Integers, Sequences, FiniteSets, TLC

VARIABLES
    \* ---- Geometry objects under repeated extension (SpecGeom)
    geo,        \* the Geometry object being extended
    gBefore,    \* its BoundingBox before the last extension, << >> before the first
    gArgs,      \* the argument of the last extend_geometry call, << >> before the first
    geo_legacy, \* a Geometry of src/block_helper.py given the same calls as geo
    \* ---- plumber_line_to_blocks (SpecLine)
    lpc,            \* position in plumber_line_to_blocks
    plumber_line,   \* its argument: the tokens of one line
    block_index,    \* its running block index
    start_index,    \* the block_index it was called with
    heap,           \* Geometry objects by reference (Python object identity)
    block_line,     \* the LINE Block being built: << block >>, << >> before it is built
    block_word_list,\* the WORD Blocks built so far
    ids,            \* the Ids collected for the CHILD relationship
    ret_blocks,     \* the returned list
    next_uuid,      \* uuid.uuid4() as a source of fresh ids
    \* ---- get_pdf_blocks (SpecSel)
    spc,                \* position in get_pdf_blocks
    use_textract_only,  \* its argument
    handler,            \* TRUE once the except clause has been entered
    pdf_page,           \* << [width, height] >> once pdf.pages[page_num - 1] is read
    page_images,        \* << page.images >> once read
    scanned,            \* what is_scanned_pdf returned
    route,              \* the branch taken at line 51: "none", "ocr" or "native"
    failure,            \* the call that raised inside the try, "none" if none
    native_in,          \* << [text, words] >>: what extract_text and extract_words returned
    textract,           \* << [raised, result] >>: the outcome of the last detect_document_text
    blocks,             \* the local blocks
    is_native_pdf,      \* the local is_native_pdf
    blocks_from,        \* the call that last assigned blocks: "init", "native" or "ocr"
    ocr_entries,        \* calls of blocks_from_scanned_pdf so far
    textract_requests,  \* calls of detect_document_text so far
    \* ---- lambda_handler of pre_human_task_lambda.py (SpecHandler)
    hpc,                \* position in lambda_handler
    event,              \* the dataObject of the event: source-ref and annotation refs
    s3_objects,         \* LastModified and Blocks of the two annotation files
    data_obj,           \* the annotation refs of data_obj, which the handler rewrites
    do_ocr,             \* the local do_ocr
    annotation_bytes,   \* << ref >>: the annotation file whose Body was read
    pdf_blocks,         \* the local pdf_blocks
    pdf_type_native,    \* the local is_native_pdf of lambda_handler
    output,             \* << output >> once built
    get_pdf_blocks_calls, \* calls of get_pdf_blocks so far
    \* ---- remove_block_indices_from_blocks (SpecRemove)
    json_blocks,        \* the list of block dicts, changed in place
    json_blocks_in,     \* the list before the first call
    json_blocks_prev,   \* the list before the last call
    remove_calls,       \* calls of remove_block_indices_from_blocks so far
    \* ---- the alignment loop of blocks_from_native_pdf (SpecAlign)
    apc,        \* position: "loop" while line 144 is to be evaluated, then "done"
    al_lines,   \* the local lines (line 131)
    al_words,   \* the local words (line 140)
    al,         \* the cursors and lists of the loop (lines 133-143)
    al_prev,    \* << al >> before the last iteration, << >> before the first
    al_branch   \* the branch the last iteration took: "none", "match" or "no_match"

gvars == <<geo, gBefore, gArgs, geo_legacy>>
lvars == <<lpc, plumber_line, block_index, start_index, block_line,
           block_word_list, ids, ret_blocks>>
\* the heap and the uuid source are shared by the callers of Block
hvars == <<heap, next_uuid>>
svars == <<spc, use_textract_only, handler, pdf_page, page_images, scanned, route, failure,
           native_in, textract, blocks, is_native_pdf, blocks_from, ocr_entries,
           textract_requests>>
avars == <<hpc, event, s3_objects, data_obj, do_ocr, annotation_bytes, pdf_blocks,
           pdf_type_native, output, get_pdf_blocks_calls>>
rvars == <<json_blocks, json_blocks_in, json_blocks_prev, remove_calls>>
nvars == <<apc, al_lines, al_words, al, al_prev, al_branch>>
vars == <<gvars, lvars, hvars, svars, avars, rvars, nvars>>

-----------------------------------------------------------------------------
(* Bounds of the model *)

\* largest x coordinate of a box or token; the page width in SpecLine
MaxX == 2
\* largest y coordinate of a box or token; the page height in SpecLine
MaxY == 1
\* longest token line given to plumber_line_to_blocks
MaxLineTokens == 2

-----------------------------------------------------------------------------
(* Python builtins *)

Abs(x) == IF x < 0 THEN -x ELSE x
Min(a, b) == IF a < b THEN a ELSE b
Max(a, b) == IF a > b THEN a ELSE b

\* a value for an attribute that is None
None == <<>>

-----------------------------------------------------------------------------
(* utils/block_helper.py *)

BoundingBox(width, height, left, top) ==
    [Width |-> width, Top |-> top, Left |-> left, Height |-> height]

\* mutant: the width and height of the larger box instead of the covering extent
extend_bounding_box_larger(self, bounding_box) ==
    [Width  |-> Max(self.Width, bounding_box.Width),
     Height |-> Max(self.Height, bounding_box.Height),
     Left   |-> IF self.Left > bounding_box.Left THEN bounding_box.Left ELSE self.Left,
     Top    |-> IF self.Top > bounding_box.Top THEN bounding_box.Top ELSE self.Top]

\* mutant: Left and Top are taken from the argument without the comparison
extend_bounding_box_nocmp(self, bounding_box) ==
    LET selfRight == self.Left + self.Width
        selfBottom == self.Top + self.Height
        bbRight == bounding_box.Left + bounding_box.Width
        bbBottom == bounding_box.Top + bounding_box.Height
    IN  [Width  |-> Abs(Min(self.Left, bounding_box.Left) - Max(selfRight, bbRight)),
         Height |-> Abs(Min(self.Top, bounding_box.Top) - Max(selfBottom, bbBottom)),
         Left   |-> bounding_box.Left,
         Top    |-> bounding_box.Top]

\* BoundingBox.extend_bounding_box: the value of self after the call
extend_bounding_box(self, bounding_box) ==
    LET selfRight == self.Left + self.Width
        selfBottom == self.Top + self.Height
        bbRight == bounding_box.Left + bounding_box.Width
        bbBottom == bounding_box.Top + bounding_box.Height
    IN  [Width  |-> Abs(Min(self.Left, bounding_box.Left) - Max(selfRight, bbRight)),
         Height |-> Abs(Min(self.Top, bounding_box.Top) - Max(selfBottom, bbBottom)),
         Left   |-> IF self.Left > bounding_box.Left THEN bounding_box.Left ELSE self.Left,
         Top    |-> IF self.Top > bounding_box.Top THEN bounding_box.Top ELSE self.Top]

Point(x, y) == [X |-> x, Y |-> y]

get_points(width, height, left, top) ==
    << Point(left, top), Point(left + width, top),
       Point(left + width, top + height), Point(left, top + height) >>

extend_polygon(polygon1, polygon2) ==
    LET bounding_box_1 == BoundingBox(polygon1[3].X - polygon1[1].X, polygon1[3].Y - polygon1[1].Y,
                                      polygon1[1].X, polygon1[1].Y)
        bounding_box_2 == BoundingBox(polygon2[3].X - polygon2[1].X, polygon2[3].Y - polygon2[1].Y,
                                      polygon2[1].X, polygon2[1].Y)
        extended == extend_bounding_box(bounding_box_1, bounding_box_2)
    IN  get_points(extended.Width, extended.Height, extended.Left, extended.Top)

\* Geometry.__init__
Geometry(width, height, left, top) ==
    [BoundingBox |-> BoundingBox(width, height, left, top),
     Polygon |-> get_points(width, height, left, top)]

\* mutant: the BoundingBox is extended and the Polygon is left as it was
extend_geometry_keep_polygon(self, geometry) ==
    [BoundingBox |-> extend_bounding_box(self.BoundingBox, geometry.BoundingBox),
     Polygon |-> self.Polygon]

\* Geometry.extend_geometry of src/block_helper.py, the copy of the module
\* beside src/pre_human_task_lambda.py: the value of self after the call.  Its
\* BoundingBox.extend_bounding_box and its get_points are, statement for
\* statement, those of utils/block_helper.py
block_helper_extend_geometry(self, geometry) ==
    [BoundingBox |-> extend_bounding_box(self.BoundingBox, geometry.BoundingBox),
     Polygon |-> self.Polygon]

\* Geometry.extend_geometry: the value of self after the call
extend_geometry(self, geometry) ==
    [BoundingBox |-> extend_bounding_box(self.BoundingBox, geometry.BoundingBox),
     Polygon |-> extend_polygon(self.Polygon, geometry.Polygon)]

-----------------------------------------------------------------------------
(* Geometry objects under repeated extension *)

\* the (left, width, top, height) of the boxes inside the grid: non-negative
\* width and height
GridExtents ==
    { e \in (0..MaxX) \X (0..MaxX) \X (0..MaxY) \X (0..MaxY) :
        e[1] + e[2] <= MaxX /\ e[3] + e[4] <= MaxY }

GridBoxes == { BoundingBox(e[2], e[4], e[1], e[3]) : e \in GridExtents }

GridGeometries == { Geometry(e[2], e[4], e[1], e[3]) : e \in GridExtents }

SelIdle ==
    /\ spc = "idle"
    /\ use_textract_only = FALSE
    /\ handler = FALSE
    /\ pdf_page = <<>>
    /\ page_images = <<>>
    /\ scanned = FALSE
    /\ route = "none"
    /\ failure = "none"
    /\ native_in = <<>>
    /\ textract = <<>>
    /\ blocks = <<>>
    /\ is_native_pdf = FALSE
    /\ blocks_from = "init"
    /\ ocr_entries = 0
    /\ textract_requests = 0

LineIdle ==
    /\ lpc = "idle"
    /\ plumber_line = <<>>
    /\ block_index = -1
    /\ start_index = -1
    /\ heap = <<>>
    /\ block_line = <<>>
    /\ block_word_list = <<>>
    /\ ids = <<>>
    /\ ret_blocks = <<>>
    /\ next_uuid = 0

HandlerIdle ==
    /\ hpc = "idle"
    /\ event = <<>>
    /\ s3_objects = <<>>
    /\ data_obj = <<>>
    /\ do_ocr = FALSE
    /\ annotation_bytes = <<>>
    /\ pdf_blocks = <<>>
    /\ pdf_type_native = FALSE
    /\ output = <<>>
    /\ get_pdf_blocks_calls = 0

RemoveIdle ==
    /\ json_blocks = <<>>
    /\ json_blocks_in = <<>>
    /\ json_blocks_prev = <<>>
    /\ remove_calls = 0

AlignIdle ==
    /\ apc = "idle"
    /\ al_lines = <<>>
    /\ al_words = <<>>
    /\ al = <<>>
    /\ al_prev = <<>>
    /\ al_branch = "none"

GeomIdle ==
    /\ geo = Geometry(0, 0, 0, 0)
    /\ geo_legacy = Geometry(0, 0, 0, 0)
    /\ gBefore = <<>>
    /\ gArgs = <<>>

\* Geometry(width, height, left, top) of a caller
GeomInit ==
    /\ geo \in GridGeometries
    /\ geo_legacy = Geometry(0, 0, 0, 0)
    /\ gBefore = <<>>
    /\ gArgs = <<>>
    /\ LineIdle
    /\ SelIdle
    /\ HandlerIdle
    /\ RemoveIdle
    /\ AlignIdle

\* geo.extend_geometry(geometry)
ExtendGeometry ==
    /\ \E geometry \in GridGeometries :
          /\ geo' = extend_geometry(geo, geometry)
          /\ gBefore' = << geo.BoundingBox >>
          /\ gArgs' = << geometry >>
    /\ UNCHANGED <<geo_legacy, lvars, hvars, svars>>
    /\ UNCHANGED <<avars, rvars, nvars>>

GeomNext == ExtendGeometry

SpecGeom == GeomInit /\ [][GeomNext]_vars

\* Geometry(width, height, left, top) built by src/block_helper.py and by
\* utils/block_helper.py from the same arguments
BothGeomInit ==
    /\ geo \in GridGeometries
    /\ geo_legacy = geo
    /\ gBefore = <<>>
    /\ gArgs = <<>>
    /\ LineIdle
    /\ SelIdle
    /\ HandlerIdle
    /\ RemoveIdle
    /\ AlignIdle

\* extend_geometry(geometry) on both objects
ExtendBothGeometries ==
    /\ \E geometry \in GridGeometries :
          /\ geo' = extend_geometry(geo, geometry)
          /\ geo_legacy' = block_helper_extend_geometry(geo_legacy, geometry)
          /\ gBefore' = << geo.BoundingBox >>
          /\ gArgs' = << geometry >>
    /\ UNCHANGED <<lvars, hvars, svars>>
    /\ UNCHANGED <<avars, rvars, nvars>>

BothGeomNext == ExtendBothGeometries

SpecBothGeom == BothGeomInit /\ [][BothGeomNext]_vars

-----------------------------------------------------------------------------
(* utils/block_helper.py: Relationship and Block.  A Block holds its Geometry  *)
(* by reference: << r >> names heap[r], None is no Geometry.                   *)

Relationship(ids_, type) == [Ids |-> ids_, Type |-> type]

\* uuid.uuid4(): the n-th fresh id
Uuid4(n) == "uuid-" \o ToString(n)

\* Block.__init__; id is the value uuid.uuid4() returns
Block(page, block_type, text, index, geometry, parent_block_index, id) ==
    [BlockType |-> block_type, Id |-> id, Text |-> text, Geometry |-> geometry,
     Relationships |-> <<>>, Page |-> page,
     parentBlockIndex |-> parent_block_index, blockIndex |-> index]

\* mutant: the argument itself is stored, not a copy of it
Block_extend_geometry_alias(h, self, geometry) ==
    IF self.Geometry = None
    THEN [heap |-> h, self |-> [self EXCEPT !.Geometry = geometry]]
    ELSE [heap |-> [h EXCEPT ![self.Geometry[1]] =
                       extend_geometry(h[self.Geometry[1]], h[geometry[1]])],
          self |-> self]

\* Block.extend_geometry(geometry) on heap h: the heap and self after the call
Block_extend_geometry(h, self, geometry) ==
    IF self.Geometry = None
    THEN [heap |-> Append(h, h[geometry[1]]),
          self |-> [self EXCEPT !.Geometry = << Len(h) + 1 >>]]
    ELSE [heap |-> [h EXCEPT ![self.Geometry[1]] =
                       extend_geometry(h[self.Geometry[1]], h[geometry[1]])],
          self |-> self]

-----------------------------------------------------------------------------
(* lambdas/pre_human_task_lambda.py: plumber_line_to_blocks *)

\* the page of the pdfplumber words, in pixels
page_width == MaxX
page_height == MaxY

\* float(v) / page_dim for a page of pw by ph pixels, kept in units of
\* 1 / (pw * ph): exact, since page_dim is pw or ph
Norm(v, page_dim, pw, ph) == (v * (pw * ph)) \div page_dim

\* mutant: the pixel box is not divided by the page width and height
get_geometry_from_plumber_word_pixels(word, pw, ph) ==
    Geometry(Abs(word.x0 - word.x1) * (pw * ph), Abs(word.top - word.bottom) * (pw * ph),
             word.x0 * (pw * ph), word.top * (pw * ph))

\* lines 95-100, in units of 1 / (pw * ph)
get_geometry_from_plumber_word(word, pw, ph) ==
    Geometry(Norm(Abs(word.x0 - word.x1), pw, pw, ph), Norm(Abs(word.top - word.bottom), ph, pw, ph),
             Norm(word.x0, pw, pw, ph), Norm(word.top, ph, pw, ph))

\* str.join: the texts of a sequence, separated by sep
RECURSIVE Join(_, _)
Join(texts, sep) ==
    IF texts = <<>> THEN <<>>
    ELSE IF Len(texts) = 1 THEN texts[1]
    ELSE texts[1] \o sep \o Join(Tail(texts), sep)

\* mutant: the token texts are joined without the space
plumber_line_start_concat(page, line, index, h, uuid) ==
    [block_index |-> index + 1,
     block_line |-> Block(page, "LINE", Join([i \in 1..Len(line) |-> line[i].text], <<>>),
                          index + 1, None, -1, Uuid4(uuid)),
     block_word_list |-> <<>>,
     ids |-> <<>>,
     heap |-> h,
     next_uuid |-> uuid + 1]

\* lines 105-109: the LINE block and the empty lists.  The state of a call:
\* its locals, the heap and the uuid source.
plumber_line_start(page, line, index, h, uuid) ==
    [block_index |-> index + 1,
     block_line |-> Block(page, "LINE", Join([i \in 1..Len(line) |-> line[i].text], <<" ">>),
                          index + 1, None, -1, Uuid4(uuid)),
     block_word_list |-> <<>>,
     ids |-> <<>>,
     heap |-> h,
     next_uuid |-> uuid + 1]

\* mutant: the WORD block is made without its parent_block_index
plumber_line_word_parent_default(st, page, plumber_word, pw, ph) ==
    LET heap1 == Append(st.heap, get_geometry_from_plumber_word(plumber_word, pw, ph))
        block_word == Block(page, "WORD", plumber_word.text, st.block_index + 1,
                            << Len(heap1) >>, -1, Uuid4(st.next_uuid))
        ext == Block_extend_geometry(heap1, st.block_line, block_word.Geometry)
    IN  [block_index |-> st.block_index + 1,
         block_line |-> ext.self,
         block_word_list |-> Append(st.block_word_list, block_word),
         ids |-> Append(st.ids, block_word.Id),
         heap |-> ext.heap,
         next_uuid |-> st.next_uuid + 1]

\* lines 111-118: one iteration of the loop over plumber_line
plumber_line_word(st, page, plumber_word, pw, ph) ==
    LET heap1 == Append(st.heap, get_geometry_from_plumber_word(plumber_word, pw, ph))
        block_word == Block(page, "WORD", plumber_word.text, st.block_index + 1,
                            << Len(heap1) >>, st.block_line.blockIndex, Uuid4(st.next_uuid))
        ext == Block_extend_geometry(heap1, st.block_line, block_word.Geometry)
    IN  [block_index |-> st.block_index + 1,
         block_line |-> ext.self,
         block_word_list |-> Append(st.block_word_list, block_word),
         ids |-> Append(st.ids, block_word.Id),
         heap |-> ext.heap,
         next_uuid |-> st.next_uuid + 1]

\* lines 120-122: the CHILD relationship and the returned list
plumber_line_return(st) ==
    LET line == [st.block_line EXCEPT !.Relationships = Append(@, Relationship(st.ids, "CHILD"))]
    IN  [st EXCEPT !.block_line = line] @@ [ret_blocks |-> << line >> \o st.block_word_list]

RECURSIVE plumber_line_loop(_, _, _, _, _)
\* lines 110-118: the loop over plumber_line
plumber_line_loop(st, page, line, pw, ph) ==
    IF Len(st.block_word_list) = Len(line) THEN st
    ELSE plumber_line_loop(plumber_line_word(st, page, line[Len(st.block_word_list) + 1], pw, ph),
                           page, line, pw, ph)

\* plumber_line_to_blocks as one call: ret_blocks and block_index are what it
\* returns, heap and next_uuid what it leaves behind
plumber_line_to_blocks(page, line, index, pw, ph, h, uuid) ==
    plumber_line_return(plumber_line_loop(plumber_line_start(page, line, index, h, uuid),
                                          page, line, pw, ph))

\* the texts of the tokens, as sequences of characters
TokenTexts == { <<"H", "i">>, <<"y", "o", "u">> }

\* the words pdfplumber extracts: a text and a pixel box of positive extent
PlumberWords ==
    { [text |-> t, x0 |-> a, x1 |-> b, top |-> c, bottom |-> d] :
        t \in TokenTexts,
        a \in 0..(page_width - 1), b \in 1..page_width,
        c \in 0..(page_height - 1), d \in 1..page_height }

PositiveWords == { w \in PlumberWords : w.x0 < w.x1 /\ w.top < w.bottom }

RECURSIVE SeqsUpTo(_, _)
\* the sequences over S of length 0..n
SeqsUpTo(S, n) ==
    IF n = 0 THEN { <<>> }
    ELSE LET shorter == SeqsUpTo(S, n - 1)
         IN  shorter \cup { Append(q, x) : q \in { r \in shorter : Len(r) = n - 1 }, x \in S }

\* the block_index a caller passes: -1 for the first line of a page, and the
\* index a full line before it has reached
StartIndices == { -1, MaxLineTokens }

\* the page number of the call
page_num == 1

\* a call plumber_line_to_blocks(page_num, plumber_line, block_index, page_width, page_height)
LineInit ==
    /\ GeomIdle
    /\ lpc = "start"
    /\ plumber_line \in { l \in SeqsUpTo(PositiveWords, MaxLineTokens) : l # <<>> }
    /\ start_index \in StartIndices
    /\ block_index = start_index
    /\ heap = <<>>
    /\ block_line = <<>>
    /\ block_word_list = <<>>
    /\ ids = <<>>
    /\ ret_blocks = <<>>
    /\ next_uuid = 0
    /\ SelIdle
    /\ HandlerIdle
    /\ RemoveIdle
    /\ AlignIdle

\* the locals of the running call as one record
LineState ==
    [block_index |-> block_index, block_line |-> block_line[1],
     block_word_list |-> block_word_list, ids |-> ids, heap |-> heap,
     next_uuid |-> next_uuid]

LineAssign(st) ==
    /\ block_index' = st.block_index
    /\ block_line' = << st.block_line >>
    /\ block_word_list' = st.block_word_list
    /\ ids' = st.ids
    /\ heap' = st.heap
    /\ next_uuid' = st.next_uuid

\* lines 105-109
LineStart ==
    /\ lpc = "start"
    /\ LineAssign(plumber_line_start(page_num, plumber_line, block_index, heap, next_uuid))
    /\ lpc' = "loop"
    /\ UNCHANGED <<plumber_line, start_index, ret_blocks>>
    /\ UNCHANGED <<gvars, svars>>
    /\ UNCHANGED <<avars, rvars, nvars>>

\* lines 110-118: one iteration of the loop over plumber_line
LineWord ==
    /\ lpc = "loop"
    /\ Len(block_word_list) < Len(plumber_line)
    /\ LineAssign(plumber_line_word(LineState, page_num,
                                    plumber_line[Len(block_word_list) + 1],
                                    page_width, page_height))
    /\ UNCHANGED <<lpc, plumber_line, start_index, ret_blocks>>
    /\ UNCHANGED <<gvars, svars>>
    /\ UNCHANGED <<avars, rvars, nvars>>

\* lines 120-123
LineReturn ==
    /\ lpc = "loop"
    /\ Len(block_word_list) = Len(plumber_line)
    /\ LET st == plumber_line_return(LineState)
       IN  /\ LineAssign(st)
           /\ ret_blocks' = st.ret_blocks
    /\ lpc' = "done"
    /\ UNCHANGED <<plumber_line, start_index>>
    /\ UNCHANGED <<gvars, svars>>
    /\ UNCHANGED <<avars, rvars, nvars>>

LineNext == LineStart \/ LineWord \/ LineReturn

SpecLine == LineInit /\ [][LineNext]_vars

-----------------------------------------------------------------------------
(* Python str operations; a str is a sequence of one-character strings *)

Whitespace == { " ", "\n" }

\* s[start:]
SliceFrom(s, start) == IF start >= Len(s) THEN <<>> ELSE SubSeq(s, start + 1, Len(s))

\* s[:stop]
SliceTo(s, stop) == IF stop <= 0 THEN <<>> ELSE SubSeq(s, 1, Min(stop, Len(s)))

\* s.find(sub): the lowest 0-based index at which sub occurs in s, -1 if none
Find(s, sub) ==
    LET at == { i \in 0..Len(s) : i + Len(sub) <= Len(s) /\ SubSeq(s, i + 1, i + Len(sub)) = sub }
    IN  IF at = {} THEN -1 ELSE CHOOSE i \in at : \A j \in at : i <= j

RECURSIVE SplitOn(_, _)
\* s.split(c) for a one-character separator c
SplitOn(s, c) ==
    LET at == { i \in 1..Len(s) : s[i] = c }
    IN  IF at = {} THEN << s >>
        ELSE LET i == CHOOSE k \in at : \A j \in at : k <= j
             IN  << SubSeq(s, 1, i - 1) >> \o SplitOn(SubSeq(s, i + 1, Len(s)), c)

\* s.strip()
Strip(s) ==
    LET keep == { i \in 1..Len(s) : s[i] \notin Whitespace }
    IN  IF keep = {} THEN <<>>
        ELSE SubSeq(s, CHOOSE i \in keep : \A j \in keep : i <= j,
                       CHOOSE i \in keep : \A j \in keep : i >= j)

RECURSIVE SplitWhitespace(_)
\* s.split(): the maximal runs of non-whitespace characters of s
SplitWhitespace(s) ==
    LET t == Strip(s)
        ws == { i \in 1..Len(t) : t[i] \in Whitespace }
    IN  IF t = <<>> THEN <<>>
        ELSE IF ws = {} THEN << t >>
        ELSE LET i == CHOOSE k \in ws : \A j \in ws : k <= j
             IN  << SubSeq(t, 1, i - 1) >> \o SplitWhitespace(SubSeq(t, i + 1, Len(t)))

NonEmpty(x) == x # <<>>

-----------------------------------------------------------------------------
(* lambdas/pre_human_task_lambda.py: blocks_from_native_pdf *)

\* line 131: the stripped non-empty lines of the extracted text (None is << >>)
text_lines(text) ==
    LET raw == SplitOn(text, "\n")
    IN  SelectSeq([i \in 1..Len(raw) |-> Strip(raw[i])], NonEmpty)

\* lines 133-143: the cursors before the loop
align_start(lines) ==
    [line_index |-> 0,
     line_words |-> SplitWhitespace(lines[1]),
     word_index |-> 0,
     plumber_text |-> <<>>,
     plumber_line |-> <<>>,
     token_sub_search_index |-> 0,
     word_sub_search_index |-> 0,
     token_block_list_idx |-> 0]

\* mutant: the line that is complete when the next text line begins is discarded
advance_word_discards(a, lines, line, flush_empty) ==
    IF a.word_index < Len(a.line_words) - 1
    THEN [a EXCEPT !.word_index = a.word_index + 1, !.plumber_line = line]
    ELSE IF a.line_index < Len(lines) - 1
         THEN [a EXCEPT !.line_index = a.line_index + 1,
                        !.line_words = SplitWhitespace(lines[a.line_index + 2]),
                        !.word_index = 0,
                        !.plumber_line = IF flush_empty \/ line # <<>> THEN <<>> ELSE line]
         ELSE [a EXCEPT !.plumber_line = line]

\* mutant: word_index is advanced while it is less than len(line_words)
advance_word_off_by_one(a, lines, line, flush_empty) ==
    IF a.word_index < Len(a.line_words)
    THEN [a EXCEPT !.word_index = a.word_index + 1, !.plumber_line = line]
    ELSE IF a.line_index < Len(lines) - 1
         THEN [a EXCEPT !.line_index = a.line_index + 1,
                        !.line_words = SplitWhitespace(lines[a.line_index + 2]),
                        !.word_index = 0,
                        !.plumber_text = IF flush_empty \/ line # <<>>
                                         THEN Append(a.plumber_text, line) ELSE a.plumber_text,
                        !.plumber_line = IF flush_empty \/ line # <<>> THEN <<>> ELSE line]
         ELSE [a EXCEPT !.plumber_line = line]

\* mutant: the no-match branch appends plumber_line to plumber_text even when
\* it is empty
advance_word_flushes_empty(a, lines, line, flush_empty) ==
    IF a.word_index < Len(a.line_words) - 1
    THEN [a EXCEPT !.word_index = a.word_index + 1, !.plumber_line = line]
    ELSE IF a.line_index < Len(lines) - 1
         THEN [a EXCEPT !.line_index = a.line_index + 1,
                        !.line_words = SplitWhitespace(lines[a.line_index + 2]),
                        !.word_index = 0,
                        !.plumber_text = Append(a.plumber_text, line),
                        !.plumber_line = <<>>]
         ELSE [a EXCEPT !.plumber_line = line]

\* lines 155-163 and 171-180: the move to the next line-word; flush_empty says
\* whether an empty plumber_line is appended to plumber_text too
advance_word(a, lines, line, flush_empty) ==
    IF a.word_index < Len(a.line_words) - 1
    THEN [a EXCEPT !.word_index = a.word_index + 1, !.plumber_line = line]
    ELSE IF a.line_index < Len(lines) - 1
         THEN [a EXCEPT !.line_index = a.line_index + 1,
                        !.line_words = SplitWhitespace(lines[a.line_index + 2]),
                        !.word_index = 0,
                        !.plumber_text = IF flush_empty \/ line # <<>>
                                         THEN Append(a.plumber_text, line) ELSE a.plumber_text,
                        !.plumber_line = IF flush_empty \/ line # <<>> THEN <<>> ELSE line]
         ELSE [a EXCEPT !.plumber_line = line]

\* mutant: the no-match branch leaves token_sub_search_index as it was
align_step_stalls(a, lines, words) ==
    LET token_block == words[a.token_block_list_idx + 1]
        line_word == a.line_words[a.word_index + 1]
        word_rest == SliceFrom(line_word, a.word_sub_search_index)
        token_rest == SliceFrom(token_block.text, a.token_sub_search_index)
        found == Find(word_rest, token_rest)
    IN  IF found > -1
        THEN LET sub == IF word_rest = SliceTo(token_block.text, a.token_sub_search_index)
                        THEN Len(line_word)
                        ELSE a.word_sub_search_index + found + Len(token_rest)
                 line == Append(a.plumber_line, token_block)
                 moved == IF sub = Len(line_word)
                          THEN [advance_word(a, lines, line, TRUE)
                                  EXCEPT !.word_sub_search_index = 0]
                          ELSE [a EXCEPT !.word_sub_search_index = sub, !.plumber_line = line]
             IN  [moved EXCEPT !.token_block_list_idx = a.token_block_list_idx + 1,
                               !.token_sub_search_index = 0]
        ELSE advance_word(a, lines, a.plumber_line, FALSE)

\* lines 145-180: one iteration of the while loop
align_step(a, lines, words) ==
    LET token_block == words[a.token_block_list_idx + 1]
        line_word == a.line_words[a.word_index + 1]
        word_rest == SliceFrom(line_word, a.word_sub_search_index)
        token_rest == SliceFrom(token_block.text, a.token_sub_search_index)
        block_word_index_in_line_word == Find(word_rest, token_rest)
    IN  IF block_word_index_in_line_word > -1
        THEN LET sub == IF word_rest = SliceTo(token_block.text, a.token_sub_search_index)
                        THEN Len(line_word)
                        ELSE a.word_sub_search_index + block_word_index_in_line_word
                               + Len(token_rest)
                 line == Append(a.plumber_line, token_block)
                 moved == IF sub = Len(line_word)
                          THEN [advance_word(a, lines, line, TRUE)
                                  EXCEPT !.word_sub_search_index = 0]
                          ELSE [a EXCEPT !.word_sub_search_index = sub, !.plumber_line = line]
             IN  [moved EXCEPT !.token_block_list_idx = a.token_block_list_idx + 1,
                               !.token_sub_search_index = 0]
        ELSE advance_word([a EXCEPT !.token_sub_search_index = @ + Len(line_word)],
                          lines, a.plumber_line, FALSE)

RECURSIVE align_loop(_, _, _)
\* line 144: while token_block_list_idx < len(words)
align_loop(a, lines, words) ==
    IF a.token_block_list_idx < Len(words)
    THEN align_loop(align_step(a, lines, words), lines, words)
    ELSE a

\* mutant: the trailing plumber_line is not appended
align_finish_drop_trailing(a) == a.plumber_text

\* lines 182-183: the trailing plumber_line
align_finish(a) ==
    IF a.plumber_line # <<>> THEN Append(a.plumber_text, a.plumber_line) ELSE a.plumber_text

RECURSIVE lines_to_blocks(_, _, _, _, _, _, _, _)
\* lines 185-189: plumber_line_to_blocks over plumber_text, from plumber_text[k]
lines_to_blocks(plumber_text, k, page, index, pw, ph, h, uuid) ==
    IF k > Len(plumber_text) THEN [blocks |-> <<>>, heap |-> h, next_uuid |-> uuid]
    ELSE LET one == plumber_line_to_blocks(page, plumber_text[k], index, pw, ph, h, uuid)
             rest == lines_to_blocks(plumber_text, k + 1, page, one.block_index, pw, ph,
                                     one.heap, one.next_uuid)
         IN  [rest EXCEPT !.blocks = one.ret_blocks \o @]

\* mutant: a page without text lines gives one LINE block without text
blocks_from_native_pdf_blank_line(text, words, page, pw, ph, h, uuid) ==
    LET lines == text_lines(text)
    IN  IF lines = <<>>
        THEN [blocks |-> << Block(page, "LINE", <<>>, 0, None, -1, Uuid4(uuid)) >>,
              heap |-> h, next_uuid |-> uuid + 1]
        ELSE lines_to_blocks(align_finish(align_loop(align_start(lines), lines, words)),
                             1, page, -1, pw, ph, h, uuid)

\* blocks_from_native_pdf for a page whose extract_text() is text and whose
\* extract_words() is words: the returned blocks, the heap and the uuid source
blocks_from_native_pdf(text, words, page, pw, ph, h, uuid) ==
    LET lines == text_lines(text)
    IN  IF lines = <<>> THEN [blocks |-> <<>>, heap |-> h, next_uuid |-> uuid]
        ELSE lines_to_blocks(align_finish(align_loop(align_start(lines), lines, words)),
                             1, page, -1, pw, ph, h, uuid)

-----------------------------------------------------------------------------
(* blocks_from_native_pdf: the while loop of lines 144-180, one iteration a step *)

MaxAlignTokens == 2

\* the texts of the tokens: a part of a word, a word, a token that runs from one
\* word into the next, and a token found in no word
AlignTokenTexts == { <<"a">>, <<"a", "b">>, <<"b", "c">>, <<"c">>, <<"x">> }

\* what extract_text returns for a page with text: one line of one word or of
\* two, and two lines
AlignTexts ==
    { << "a", "b" >>, << "c" >>, << "a", "b", " ", "c" >>,
      << "a", "b", "\n", "c" >>, << "c", "\n", "a", "b", " ", "c" >> }

\* what extract_words returns: any tokens, whatever the text
AlignWordSeqs ==
    { [i \in 1..Len(t) |-> [text |-> t[i], x0 |-> 0, x1 |-> 1, top |-> 0, bottom |-> 1]] :
        t \in SeqsUpTo(AlignTokenTexts, MaxAlignTokens) }

\* line 146: where the rest of the token is found in the rest of the line-word
block_word_index_in_line_word(a, words) ==
    Find(SliceFrom(a.line_words[a.word_index + 1], a.word_sub_search_index),
         SliceFrom(words[a.token_block_list_idx + 1].text, a.token_sub_search_index))

\* lines 130-143: a page whose text has a line, its tokens, and the cursors
AlignInit ==
    /\ GeomIdle
    /\ LineIdle
    /\ SelIdle
    /\ HandlerIdle
    /\ RemoveIdle
    /\ apc = "loop"
    /\ al_lines \in { text_lines(t) : t \in AlignTexts }
    /\ al_words \in AlignWordSeqs
    /\ al = align_start(al_lines)
    /\ al_prev = <<>>
    /\ al_branch = "none"

\* lines 144-180: the loop condition holds and the body runs once
AlignIterate ==
    /\ apc = "loop"
    /\ al.token_block_list_idx < Len(al_words)
    /\ al' = align_step(al, al_lines, al_words)
    /\ al_prev' = << al >>
    /\ al_branch' = IF block_word_index_in_line_word(al, al_words) > -1
                    THEN "match" ELSE "no_match"
    /\ UNCHANGED <<apc, al_lines, al_words>>
    /\ UNCHANGED <<gvars, lvars, hvars, svars, avars, rvars>>

\* line 144: the loop condition fails and the loop is left
AlignExit ==
    /\ apc = "loop"
    /\ ~(al.token_block_list_idx < Len(al_words))
    /\ apc' = "done"
    /\ UNCHANGED <<al_lines, al_words, al, al_prev, al_branch>>
    /\ UNCHANGED <<gvars, lvars, hvars, svars, avars, rvars>>

AlignNext == AlignIterate \/ AlignExit

SpecAlign == AlignInit /\ [][AlignNext]_vars

\* the loop is one thread of control: it takes its next step while it has one
SpecAlignLive == SpecAlign /\ WF_vars(AlignNext)

-----------------------------------------------------------------------------
(* lambdas/pre_human_task_lambda.py: the Textract (OCR) conversion.           *)
(* A Textract block is a dict: Keys are the keys it has, and reading a key it *)
(* lacks raises KeyError.                                                     *)

RECURSIVE textract_block_to_block_relationship_every_child(_)
\* mutant: the Ids of every CHILD relationship are collected, not of the first
textract_block_to_block_relationship_every_child(textract_relationship_list) ==
    IF textract_relationship_list = <<>> THEN Relationship(<<>>, "CHILD")
    ELSE LET rest == textract_block_to_block_relationship_every_child(Tail(textract_relationship_list))
         IN  IF textract_relationship_list[1].Type = "CHILD"
             THEN Relationship(textract_relationship_list[1].Ids \o rest.Ids, "CHILD")
             ELSE rest

\* lines 195-202: the Ids of the first relationship of type CHILD
textract_block_to_block_relationship(textract_relationship_list) ==
    LET child == { i \in 1..Len(textract_relationship_list) :
                     textract_relationship_list[i].Type = "CHILD" }
    IN  Relationship(IF child = {} THEN <<>>
                     ELSE textract_relationship_list[CHOOSE i \in child : \A j \in child : i <= j].Ids,
                     "CHILD")

\* mutant: the block keeps the Id that Block.__init__ generated
textract_block_to_block_fresh_id(page, textract_block, index, parent_index, h) ==
    IF "Geometry" \notin textract_block.Keys \/ "Text" \notin textract_block.Keys
    THEN [raised |-> TRUE, block |-> <<>>, heap |-> h]
    ELSE LET bb == textract_block.BoundingBox
             made == Block(page, textract_block.BlockType, textract_block.Text, index,
                           << Len(h) + 1 >>, parent_index, Uuid4(index))
         IN  [raised |-> FALSE,
              block |-> [made EXCEPT !.Relationships =
                           IF "Relationships" \notin textract_block.Keys THEN <<>>
                           ELSE << textract_block_to_block_relationship(textract_block.Relationships) >>],
              heap |-> Append(h, Geometry(bb.Width, bb.Height, bb.Left, bb.Top))]

\* mutant: the blockIndex of a converted block counts from 1
textract_block_to_block_index_from_one(page, textract_block, index, parent_index, h) ==
    IF "Geometry" \notin textract_block.Keys \/ "Text" \notin textract_block.Keys
    THEN [raised |-> TRUE, block |-> <<>>, heap |-> h]
    ELSE LET bb == textract_block.BoundingBox
             made == Block(page, textract_block.BlockType, textract_block.Text, index + 1,
                           << Len(h) + 1 >>, parent_index, textract_block.Id)
         IN  [raised |-> FALSE,
              block |-> [made EXCEPT !.Relationships =
                           IF "Relationships" \notin textract_block.Keys THEN <<>>
                           ELSE << textract_block_to_block_relationship(textract_block.Relationships) >>],
              heap |-> Append(h, Geometry(bb.Width, bb.Height, bb.Left, bb.Top))]

\* textract_block_to_block on heap h: raised, or the block and the heap with
\* its new Geometry
textract_block_to_block(page, textract_block, index, parent_index, h) ==
    IF "Geometry" \notin textract_block.Keys \/ "Text" \notin textract_block.Keys
    THEN [raised |-> TRUE, block |-> <<>>, heap |-> h]
    ELSE LET bb == textract_block.BoundingBox
             made == Block(page, textract_block.BlockType, textract_block.Text, index,
                           << Len(h) + 1 >>, parent_index, textract_block.Id)
         IN  [raised |-> FALSE,
              block |-> [made EXCEPT !.Relationships =
                           IF "Relationships" \notin textract_block.Keys THEN <<>>
                           ELSE << textract_block_to_block_relationship(textract_block.Relationships) >>],
              heap |-> Append(h, Geometry(bb.Width, bb.Height, bb.Left, bb.Top))]

\* line 232: the WORD blocks by Id, a later one replacing an earlier one
idToWordBlock(textract_blocks) ==
    LET at(id) == { i \in 1..Len(textract_blocks) :
                      textract_blocks[i].BlockType = "WORD" /\ textract_blocks[i].Id = id }
    IN  [ id \in { textract_blocks[i].Id :
                     i \in { j \in 1..Len(textract_blocks) : textract_blocks[j].BlockType = "WORD" } }
            |-> textract_blocks[CHOOSE i \in at(id) : \A j \in at(id) : i >= j] ]

RECURSIVE ocr_word_loop(_, _, _, _, _, _)
\* lines 245-249: the loop over the CHILD ids of a line, from child_ids[k]
ocr_word_loop(st, child_ids, k, page, line_index, words_by_id) ==
    IF st.raised \/ k > Len(child_ids) THEN st
    ELSE IF child_ids[k] \notin DOMAIN words_by_id
         THEN [st EXCEPT !.raised = TRUE, !.index = @ + 1]
         ELSE LET made == textract_block_to_block(page, words_by_id[child_ids[k]],
                                                  st.index + 1, line_index, st.heap)
              IN  IF made.raised THEN [st EXCEPT !.raised = TRUE, !.index = @ + 1]
                  ELSE ocr_word_loop([st EXCEPT !.index = @ + 1,
                                                !.blocks = Append(@, made.block),
                                                !.heap = made.heap],
                                     child_ids, k + 1, page, line_index, words_by_id)

RECURSIVE ocr_line_loop(_, _, _, _, _)
\* lines 238-249: the loop over the LINE blocks, from textract_line_blocks[k]
ocr_line_loop(st, textract_line_blocks, k, page, words_by_id) ==
    IF st.raised \/ k > Len(textract_line_blocks) THEN st
    ELSE LET made == textract_block_to_block(page, textract_line_blocks[k], st.index + 1, -1, st.heap)
         IN  IF made.raised THEN [st EXCEPT !.raised = TRUE, !.index = @ + 1]
             ELSE LET st1 == [st EXCEPT !.index = @ + 1,
                                        !.blocks = Append(@, made.block),
                                        !.heap = made.heap]
                      st2 == IF made.block.Relationships # <<>>
                             THEN ocr_word_loop(st1, made.block.Relationships[1].Ids, 1, page,
                                                st1.index, words_by_id)
                             ELSE st1
                  IN  ocr_line_loop(st2, textract_line_blocks, k + 1, page, words_by_id)

IsLine(b) == b.BlockType = "LINE"

\* lines 223-258: the body of the try for the response result
textract_result_to_blocks(result, page, h) ==
    IF "Blocks" \notin result.Keys
    THEN [raised |-> TRUE, blocks |-> <<>>, index |-> -1, heap |-> h]
    ELSE ocr_line_loop([raised |-> FALSE, blocks |-> <<>>, index |-> -1, heap |-> h],
                       SelectSeq(result.Blocks, IsLine), 1, page,
                       idToWordBlock(result.Blocks))

\* mutant: the blocks converted before the exception are returned
blocks_from_textract_partial(outcome, page, h) ==
    IF outcome.raised THEN [blocks |-> <<>>, heap |-> h]
    ELSE LET conv == textract_result_to_blocks(outcome.result, page, h)
         IN  [blocks |-> conv.blocks, heap |-> conv.heap]

\* lines 221-261 of blocks_from_scanned_pdf: the try around the request and the
\* conversion; outcome is what detect_document_text did.  Objects made before
\* an exception are garbage and are left out of the heap.
blocks_from_textract(outcome, page, h) ==
    IF outcome.raised THEN [blocks |-> <<>>, heap |-> h]
    ELSE LET conv == textract_result_to_blocks(outcome.result, page, h)
         IN  IF conv.raised THEN [blocks |-> <<>>, heap |-> h]
             ELSE [blocks |-> conv.blocks, heap |-> conv.heap]

-----------------------------------------------------------------------------
(* The responses of the OCR service *)

\* most LINE regions of a response
MaxOcrLines == 2

TextractFlaws == { "ok", "no_text", "no_geometry" }

KeysOf(flaw, all) ==
    all \ (IF flaw = "no_text" THEN { "Text" }
           ELSE IF flaw = "no_geometry" THEN { "Geometry" } ELSE {})

WordRegion(n, flaw) ==
    [Id |-> "W" \o ToString(n), BlockType |-> "WORD",
     Keys |-> KeysOf(flaw, { "Text", "Geometry" }),
     Text |-> << "w", ToString(n) >>,
     BoundingBox |-> [Width |-> 1, Height |-> 1, Left |-> n, Top |-> 0],
     Relationships |-> <<>>]

\* the Relationships a LINE region may carry: none (no such key), an empty
\* list, one or two children, a relationship of another type before the CHILD
\* one or alone, and two CHILD relationships
TextractRelationships ==
    { [present |-> FALSE, list |-> <<>>],
      [present |-> TRUE, list |-> <<>>],
      [present |-> TRUE, list |-> << [Type |-> "CHILD", Ids |-> << "W1" >>] >>],
      [present |-> TRUE, list |-> << [Type |-> "CHILD", Ids |-> << "W1", "W2" >>] >>],
      [present |-> TRUE, list |-> << [Type |-> "MERGED_CELL", Ids |-> << "W2" >>],
                                     [Type |-> "CHILD", Ids |-> << "W1" >>] >>],
      [present |-> TRUE, list |-> << [Type |-> "MERGED_CELL", Ids |-> << "W2" >>] >>],
      [present |-> TRUE, list |-> << [Type |-> "CHILD", Ids |-> << "W1" >>],
                                     [Type |-> "CHILD", Ids |-> << "W2" >>] >>] }

\* the Relationships of the LINE regions after the first: none, or the two
\* words in the reverse of their order in the response
LaterRelationships ==
    { [present |-> FALSE, list |-> <<>>],
      [present |-> TRUE, list |-> << [Type |-> "CHILD", Ids |-> << "W2", "W1" >>] >>] }

\* the flaws of the LINE regions after the first
LaterFlaws == { "ok", "no_text" }

LineRegion(n, rel, flaw) ==
    [Id |-> "L" \o ToString(n), BlockType |-> "LINE",
     Keys |-> KeysOf(flaw, { "Text", "Geometry" })
                \cup (IF rel.present THEN { "Relationships" } ELSE {}),
     Text |-> << "l", ToString(n) >>,
     BoundingBox |-> [Width |-> 2, Height |-> 1, Left |-> 1, Top |-> n - 1],
     Relationships |-> rel.list]

\* the PAGE region of a response: it has no Text
PageRegion ==
    [Id |-> "P1", BlockType |-> "PAGE", Keys |-> { "Geometry", "Relationships" },
     Text |-> <<>>,
     BoundingBox |-> [Width |-> 4, Height |-> 4, Left |-> 0, Top |-> 0],
     Relationships |-> << [Type |-> "CHILD", Ids |-> << "L1" >>] >>]

\* the first LINE region takes every shape, the later ones the later shapes
TextractLineSeqs ==
    { [i \in 1..Len(c) |-> LineRegion(i, c[i][1], c[i][2])] :
        c \in { d \in SeqsUpTo((TextractRelationships \cup LaterRelationships) \X TextractFlaws,
                               MaxOcrLines) :
                  \A i \in 2..Len(d) : d[i] \in LaterRelationships \X LaterFlaws } }

TextractWordSeqs ==
    { w1 \o w2 : w1 \in { <<>> } \cup { << WordRegion(1, f) >> : f \in TextractFlaws },
                 w2 \in { <<>>, << WordRegion(2, "ok") >> } }

TextractResults ==
    { [Keys |-> {}, Blocks |-> <<>>] }
      \cup { [Keys |-> { "Blocks" }, Blocks |-> pg \o ls \o ws] :
               pg \in { <<>>, << PageRegion >> }, ls \in TextractLineSeqs, ws \in TextractWordSeqs }

\* what detect_document_text does: it raises, or it returns a response
TextractOutcomes ==
    { [raised |-> TRUE, result |-> [Keys |-> {}, Blocks |-> <<>>]] }
      \cup { [raised |-> FALSE, result |-> r] : r \in TextractResults }

-----------------------------------------------------------------------------
(* lambdas/pre_human_task_lambda.py: is_scanned_pdf and get_pdf_blocks *)

\* general.TOTAL_IMAGE_SIZE_TO_PAGE_SIZE_RATIO_THRESHOLD = 0.25, in hundredths
ThresholdHundredths == 25

RECURSIVE image_size_sum(_)
\* lines 27-29
image_size_sum(imgs) ==
    IF imgs = <<>> THEN 0
    ELSE imgs[1].width * imgs[1].height + image_size_sum(Tail(imgs))

\* mutant: the threshold itself does not count as scanned
is_scanned_pdf_strict(imgs, pw, ph) ==
    IF Len(imgs) >= 1 THEN image_size_sum(imgs) * 100 > ThresholdHundredths * (pw * ph)
    ELSE FALSE

\* is_scanned_pdf; image_size_total / page_size >= 0.25 for a page_size > 0,
\* compared exactly
is_scanned_pdf(imgs, pw, ph) ==
    LET page_size == pw * ph
    IN  IF Len(imgs) >= 1
        THEN image_size_sum(imgs) * 100 >= ThresholdHundredths * page_size
        ELSE FALSE

\* mutant: the override is ignored
choose_route_heuristic_only(textract_only, is_scanned) ==
    IF is_scanned THEN "ocr" ELSE "native"

\* line 51: the branch get_pdf_blocks takes
choose_route(textract_only, is_scanned) ==
    IF textract_only \/ is_scanned THEN "ocr" ELSE "native"

\* mutant: the except clause only logs
except_clause_logs_only == "return"

\* mutant: the except clause raises again
except_clause_reraises == "raised"

\* lines 63-66: where the except clause goes: to blocks_from_scanned_pdf
except_clause == "ocr"

\* most images of a page
MaxImages == 2

\* the images of a page and the page sizes
PageImages == { [width |-> w, height |-> 2] : w \in { 1, 2 } }
PdfPages == { [width |-> w, height |-> 4] : w \in { 2, 4 } }

\* what extract_text returns: None or "" (both << >>), blanks, one line of one
\* or two words, two lines, and one word that the tokens split
PageTexts ==
    { <<>>, << " ", "\n" >>, << "H", "i" >>, << "H", "i", " ", "y", "o", "u" >>,
      << "H", "i", "\n", "y", "o", "u" >>, << "H", "i", "y", "o", "u" >> }

\* the texts of the tokens of a page: the words, and one token for two words
PageTokenTexts == TokenTexts \cup { << "H", "i", "y", "o", "u" >> }

\* what extract_words returns: words with the box of their place in the list
PageWordSeqs ==
    { [i \in 1..Len(t) |-> [text |-> t[i], x0 |-> 0, x1 |-> 1, top |-> 0, bottom |-> 1]] :
        t \in SeqsUpTo(PageTokenTexts, MaxLineTokens) }

\* a call get_pdf_blocks(pdf_bytes, page_num, use_textract_only, ...)
SelInit ==
    /\ GeomIdle
    /\ LineIdle
    /\ HandlerIdle
    /\ RemoveIdle
    /\ AlignIdle
    /\ spc = "open"
    /\ use_textract_only \in BOOLEAN
    /\ handler = FALSE
    /\ pdf_page = <<>>
    /\ page_images = <<>>
    /\ scanned = FALSE
    /\ route = "none"
    /\ failure = "none"
    /\ native_in = <<>>
    /\ textract = <<>>
    /\ blocks = <<>>
    /\ is_native_pdf = FALSE
    /\ blocks_from = "init"
    /\ ocr_entries = 0
    /\ textract_requests = 0

\* an exception inside the try: control goes to the except clause
Raise(what) ==
    /\ failure' = what
    /\ spc' = "except"

\* line 47: pdfplumber.open(bytes_io_obj)
SelOpen ==
    /\ spc = "open"
    /\ \/ spc' = "page" /\ UNCHANGED failure
       \/ Raise("open")
    /\ UNCHANGED <<use_textract_only, handler, pdf_page, page_images, scanned, route,
                   native_in, textract, blocks, is_native_pdf, blocks_from, ocr_entries,
                   textract_requests>>
    /\ UNCHANGED <<gvars, lvars, hvars>>
    /\ UNCHANGED <<avars, rvars, nvars>>

\* lines 48-49: pdf.pages[page_num - 1] and its size
SelPage ==
    /\ spc = "page"
    /\ \/ /\ \E pg \in PdfPages : pdf_page' = << pg >>
          /\ spc' = "route"
          /\ UNCHANGED failure
       \/ Raise("page") /\ UNCHANGED pdf_page
    /\ UNCHANGED <<use_textract_only, handler, page_images, scanned, route,
                   native_in, textract, blocks, is_native_pdf, blocks_from, ocr_entries,
                   textract_requests>>
    /\ UNCHANGED <<gvars, lvars, hvars>>
    /\ UNCHANGED <<avars, rvars, nvars>>

\* line 51: use_textract_only or is_scanned_pdf(page.images, width, height)
SelRoute ==
    /\ spc = "route"
    /\ IF use_textract_only
       THEN /\ route' = choose_route(use_textract_only, FALSE)
            /\ spc' = route'
            /\ UNCHANGED <<page_images, scanned, failure>>
       ELSE \/ Raise("images") /\ UNCHANGED <<page_images, scanned, route>>
            \/ \E n \in 0..MaxImages : \E imgs \in [1..n -> PageImages] :
                 /\ page_images' = << imgs >>
                 /\ scanned' = is_scanned_pdf(imgs, pdf_page[1].width, pdf_page[1].height)
                 /\ route' = choose_route(use_textract_only, scanned')
                 /\ spc' = route'
                 /\ UNCHANGED failure
    /\ UNCHANGED <<use_textract_only, handler, pdf_page, native_in, textract, blocks,
                   is_native_pdf, blocks_from, ocr_entries, textract_requests>>
    /\ UNCHANGED <<gvars, lvars, hvars>>
    /\ UNCHANGED <<avars, rvars, nvars>>

\* lines 61-62: blocks_from_native_pdf(page, page_num, width, height)
SelNative ==
    /\ spc = "native"
    /\ \/ /\ Raise("extract_text")
          /\ UNCHANGED <<native_in, blocks, is_native_pdf, blocks_from, hvars>>
       \/ \E text \in PageTexts :
            /\ text_lines(text) # <<>>
            /\ native_in' = << [text |-> text, words |-> <<>>] >>
            /\ Raise("extract_words")
            /\ UNCHANGED <<blocks, is_native_pdf, blocks_from, hvars>>
       \/ \E text \in PageTexts : \E words \in PageWordSeqs :
            /\ text_lines(text) = <<>> => words = <<>>
            /\ LET r == blocks_from_native_pdf(text, words, page_num, pdf_page[1].width,
                                               pdf_page[1].height, heap, next_uuid)
               IN  /\ blocks' = r.blocks
                   /\ heap' = r.heap
                   /\ next_uuid' = r.next_uuid
            /\ native_in' = << [text |-> text, words |-> words] >>
            /\ is_native_pdf' = TRUE
            /\ blocks_from' = "native"
            /\ spc' = "return"
            /\ UNCHANGED failure
    /\ UNCHANGED <<use_textract_only, handler, pdf_page, page_images, scanned, route,
                   textract, ocr_entries, textract_requests>>
    /\ UNCHANGED <<gvars, lvars>>
    /\ UNCHANGED <<avars, rvars, nvars>>

\* lines 63-66: the except clause
SelExcept ==
    /\ spc = "except"
    /\ handler' = TRUE
    /\ spc' = except_clause
    /\ UNCHANGED <<use_textract_only, pdf_page, page_images, scanned, route, failure,
                   native_in, textract, blocks, is_native_pdf, blocks_from, ocr_entries,
                   textract_requests>>
    /\ UNCHANGED <<gvars, lvars, hvars>>
    /\ UNCHANGED <<avars, rvars, nvars>>

\* line 219: blocks_from_scanned_pdf is entered and converts the page to PNG;
\* an exception there is outside its try: it reaches the except clause of
\* get_pdf_blocks, or the caller when raised from within that clause
SelOcrConvert ==
    /\ spc = "ocr"
    /\ ocr_entries' = ocr_entries + 1
    /\ \/ spc' = "textract" /\ UNCHANGED failure
       \/ IF handler THEN spc' = "raised" /\ UNCHANGED failure ELSE Raise("convert")
    /\ UNCHANGED <<use_textract_only, handler, pdf_page, page_images, scanned, route,
                   native_in, textract, blocks, is_native_pdf, blocks_from,
                   textract_requests>>
    /\ UNCHANGED <<gvars, lvars, hvars>>
    /\ UNCHANGED <<avars, rvars, nvars>>

\* mutant: an exception of the request leaves blocks_from_scanned_pdf; it reaches
\* the except clause of get_pdf_blocks, or the caller when raised from within it
textract_except_clause_reraises == IF handler THEN "raised" ELSE "except"

\* lines 259-261: the except clause of blocks_from_scanned_pdf prints and falls
\* through to return []
textract_except_clause == "return"

\* lines 221-261: the request to Textract and the conversion of its response
SelTextract ==
    /\ spc = "textract"
    /\ textract_requests' = textract_requests + 1
    /\ \E outcome \in TextractOutcomes :
          LET r == blocks_from_textract(outcome, page_num, heap)
          IN  /\ textract' = << outcome >>
              /\ blocks' = r.blocks
              /\ heap' = r.heap
              /\ spc' = IF outcome.raised THEN textract_except_clause ELSE "return"
    /\ blocks_from' = "ocr"
    /\ UNCHANGED <<use_textract_only, handler, pdf_page, page_images, scanned, route,
                   failure, native_in, is_native_pdf, ocr_entries, next_uuid>>
    /\ UNCHANGED <<gvars, lvars>>
    /\ UNCHANGED <<avars, rvars, nvars>>

SelNext == SelOpen \/ SelPage \/ SelRoute \/ SelNative \/ SelExcept \/ SelOcrConvert
             \/ SelTextract

SpecSel == SelInit /\ [][SelNext]_vars

-----------------------------------------------------------------------------
(* lambdas/pre_human_task_lambda.py: lambda_handler *)

\* latest LastModified of an annotation file
MaxDate == 2

\* the S3 references of an event
SourceRef == "s3://bucket/file.pdf"
PrimaryRef == "s3://bucket/primary-ann.json"
SecondaryRef == "s3://bucket/secondary-ann.json"

\* event["dataObject"]: what data_obj.get gives for the three references,
\* None for a key that is absent
Events ==
    { [source_ref |-> s, primary_annotation_ref |-> p, secondary_annotation_ref |-> q] :
        s \in { None, << SourceRef >> },
        p \in { None, << PrimaryRef >> },
        q \in { None, << SecondaryRef >> } }

\* SemiStructuredDocumentType
NativePDF == "NativePDF"
ScannedPDF == "ScannedPDF"

\* the annotation file at ref: the LastModified of the S3 response and the
\* Blocks and DocumentType of the SemiStructuredAnnotation in its Body
AnnotationFiles(ref) ==
    { [LastModified |-> d, Blocks |-> b, DocumentType |-> t] :
        d \in 1..MaxDate,
        b \in { <<>>, << [Id |-> ref] >> },
        t \in { NativePDF, ScannedPDF } }

\* what get_pdf_blocks returns to lambda_handler: no block or one, from the
\* OCR path or the native path
GetPdfBlocksResults ==
    { [blocks |-> b, is_native_pdf |-> n] :
        b \in { <<>>, << [Id |-> "L1"] >> }, n \in BOOLEAN }

\* mutant: the secondary file is taken on a tie
latest_annotation_secondary_on_tie(primary_annotation_date, secondary_annotation_date) ==
    IF primary_annotation_date > secondary_annotation_date THEN "primary" ELSE "secondary"

\* line 372: the annotation file whose Body is read
latest_annotation(primary_annotation_date, secondary_annotation_date) ==
    IF primary_annotation_date >= secondary_annotation_date THEN "primary" ELSE "secondary"

\* a call lambda_handler(event, context)
HandlerInit ==
    /\ GeomIdle
    /\ LineIdle
    /\ SelIdle
    /\ RemoveIdle
    /\ AlignIdle
    /\ hpc = "start"
    /\ event \in Events
    /\ s3_objects \in [primary : AnnotationFiles(PrimaryRef),
                        secondary : AnnotationFiles(SecondaryRef)]
    /\ data_obj = [primary_annotation_ref |-> event.primary_annotation_ref,
                   secondary_annotation_ref |-> event.secondary_annotation_ref]
    /\ do_ocr = FALSE
    /\ annotation_bytes = <<>>
    /\ pdf_blocks = <<>>
    /\ pdf_type_native = FALSE
    /\ output = <<>>
    /\ get_pdf_blocks_calls = 0

\* lines 322-347: os.path.basename(source_ref) raises TypeError for None
HandlerStart ==
    /\ hpc = "start"
    /\ hpc' = IF event.source_ref = None THEN "raised" ELSE "fetch"
    /\ UNCHANGED <<event, s3_objects, data_obj, do_ocr, annotation_bytes, pdf_blocks,
                   pdf_type_native, output, get_pdf_blocks_calls>>
    /\ UNCHANGED <<gvars, lvars, hvars, svars, rvars, nvars>>

\* lines 349-356: the PDF is read from S3
HandlerFetchPdf ==
    /\ hpc = "fetch"
    /\ \/ hpc' = "raised" /\ UNCHANGED do_ocr
       \/ hpc' = "annotation" /\ do_ocr' = TRUE
    /\ UNCHANGED <<event, s3_objects, data_obj, annotation_bytes, pdf_blocks,
                   pdf_type_native, output, get_pdf_blocks_calls>>
    /\ UNCHANGED <<gvars, lvars, hvars, svars, rvars, nvars>>

\* lines 359-393: the blocks of the most recently modified annotation file
HandlerAnnotation ==
    /\ hpc = "annotation"
    /\ IF data_obj.primary_annotation_ref = None
       THEN /\ hpc' = "ocr"
            /\ UNCHANGED <<data_obj, do_ocr, annotation_bytes, pdf_blocks, pdf_type_native>>
       ELSE \/ /\ hpc' = "raised"
               /\ do_ocr' = FALSE
               /\ UNCHANGED <<data_obj, annotation_bytes, pdf_blocks, pdf_type_native>>
            \/ LET both == data_obj.secondary_annotation_ref # None
                   chosen == IF both
                             THEN latest_annotation(s3_objects.primary.LastModified,
                                                    s3_objects.secondary.LastModified)
                             ELSE "primary"
                   file == s3_objects[chosen]
                   refs == IF chosen = "secondary"
                           THEN [primary_annotation_ref |-> data_obj.secondary_annotation_ref,
                                 secondary_annotation_ref |-> data_obj.primary_annotation_ref]
                           ELSE data_obj
               IN  /\ annotation_bytes' = IF chosen = "secondary"
                                          THEN data_obj.secondary_annotation_ref
                                          ELSE data_obj.primary_annotation_ref
                   /\ IF file.Blocks # <<>>
                      THEN /\ pdf_blocks' = file.Blocks
                           /\ pdf_type_native' = (file.DocumentType = NativePDF)
                           /\ data_obj' = refs
                           /\ do_ocr' = FALSE
                      ELSE /\ data_obj' = [primary_annotation_ref |-> None,
                                           secondary_annotation_ref |-> None]
                           /\ do_ocr' = TRUE
                           /\ UNCHANGED <<pdf_blocks, pdf_type_native>>
                   /\ hpc' = "ocr"
    /\ UNCHANGED <<event, s3_objects, output, get_pdf_blocks_calls>>
    /\ UNCHANGED <<gvars, lvars, hvars, svars, rvars, nvars>>

\* mutant: get_pdf_blocks is called whatever do_ocr is
HandlerOcr_unconditional ==
    /\ hpc = "ocr"
    /\ get_pdf_blocks_calls' = get_pdf_blocks_calls + 1
    /\ \/ hpc' = "raised" /\ UNCHANGED <<pdf_blocks, pdf_type_native>>
       \/ \E r \in GetPdfBlocksResults :
             /\ pdf_blocks' = r.blocks
             /\ pdf_type_native' = r.is_native_pdf
             /\ hpc' = "output"
    /\ UNCHANGED <<event, s3_objects, data_obj, do_ocr, annotation_bytes, output>>
    /\ UNCHANGED <<gvars, lvars, hvars, svars, rvars, nvars>>

\* lines 395-397: get_pdf_blocks when no annotation file gave blocks
HandlerOcr ==
    /\ hpc = "ocr"
    /\ IF do_ocr
       THEN /\ get_pdf_blocks_calls' = get_pdf_blocks_calls + 1
            /\ \/ hpc' = "raised" /\ UNCHANGED <<pdf_blocks, pdf_type_native>>
               \/ \E r \in GetPdfBlocksResults :
                     /\ pdf_blocks' = r.blocks
                     /\ pdf_type_native' = r.is_native_pdf
                     /\ hpc' = "output"
       ELSE /\ hpc' = "output"
            /\ UNCHANGED <<pdf_blocks, pdf_type_native, get_pdf_blocks_calls>>
    /\ UNCHANGED <<event, s3_objects, data_obj, do_ocr, annotation_bytes, output>>
    /\ UNCHANGED <<gvars, lvars, hvars, svars, rvars, nvars>>

\* lines 400-430: the intermediate files are written and the output is built
HandlerOutput ==
    /\ hpc = "output"
    /\ \/ hpc' = "raised" /\ UNCHANGED output
       \/ /\ output' =
               << [taskObject |->
                     [pdfType |-> IF pdf_type_native THEN NativePDF ELSE ScannedPDF,
                      primaryAnnotationS3Ref |-> data_obj.primary_annotation_ref,
                      secondaryAnnotationS3Ref |-> data_obj.secondary_annotation_ref],
                   humanAnnotationRequired |->
                     IF event.source_ref = None THEN "false" ELSE "true"] >>
          /\ hpc' = "return"
    /\ UNCHANGED <<event, s3_objects, data_obj, do_ocr, annotation_bytes, pdf_blocks,
                   pdf_type_native, get_pdf_blocks_calls>>
    /\ UNCHANGED <<gvars, lvars, hvars, svars, rvars, nvars>>

HandlerNext == HandlerStart \/ HandlerFetchPdf \/ HandlerAnnotation \/ HandlerOcr
                 \/ HandlerOutput

SpecHandler == HandlerInit /\ [][HandlerNext]_vars

-----------------------------------------------------------------------------
(* lambdas/annotation_consolidation_lambda.py: remove_block_indices_from_blocks. *)
(* A block is a dict: a function from its keys to their values.                 *)

\* longest list of blocks
MaxBlocks == 2
\* most calls of remove_block_indices_from_blocks on one list
MaxRemoveCalls == 2

\* del b[key] when key is in b
del_if_present(b, key) == [k \in (DOMAIN b) \ { key } |-> b[k]]

\* mutant: blockIndex is deleted only from a block that had parentBlockIndex
remove_block_indices_from_blocks_nested(blocks_) ==
    [i \in 1..Len(blocks_) |->
        IF "parentBlockIndex" \in DOMAIN blocks_[i]
        THEN del_if_present(del_if_present(blocks_[i], "parentBlockIndex"), "blockIndex")
        ELSE blocks_[i]]

\* lines 17-22: the list after the call
remove_block_indices_from_blocks(blocks_) ==
    [i \in 1..Len(blocks_) |->
        del_if_present(del_if_present(blocks_[i], "parentBlockIndex"), "blockIndex")]

\* the block dicts of a blocks file: with and without each of the two indices
BlockDicts ==
    { [k \in { "BlockType", "Text" } \cup extra |->
         [BlockType |-> t, Text |-> << "H", "i" >>, parentBlockIndex |-> -1, blockIndex |-> 0][k]] :
        t \in { "LINE", "WORD" }, extra \in SUBSET { "parentBlockIndex", "blockIndex" } }

\* a list of blocks read by get_blocks_from_s3_ref
RemoveInit ==
    /\ GeomIdle
    /\ LineIdle
    /\ SelIdle
    /\ HandlerIdle
    /\ AlignIdle
    /\ json_blocks \in SeqsUpTo(BlockDicts, MaxBlocks)
    /\ json_blocks_in = json_blocks
    /\ json_blocks_prev = json_blocks
    /\ remove_calls = 0

\* remove_block_indices_from_blocks(json_blocks)
RemoveCall ==
    /\ remove_calls < MaxRemoveCalls
    /\ json_blocks_prev' = json_blocks
    /\ json_blocks' = remove_block_indices_from_blocks(json_blocks)
    /\ remove_calls' = remove_calls + 1
    /\ UNCHANGED json_blocks_in
    /\ UNCHANGED <<gvars, lvars, hvars, svars, avars, nvars>>

RemoveNext == RemoveCall

SpecRemove == RemoveInit /\ [][RemoveNext]_vars

-----------------------------------------------------------------------------
(* Claims about the geometry classes, checked under SpecGeom *)

Right(b) == b.Left + b.Width
Bottom(b) == b.Top + b.Height

\* box outer covers box inner entirely
Covers(outer, inner) ==
    /\ outer.Left <= inner.Left
    /\ outer.Top <= inner.Top
    /\ Right(outer) >= Right(inner)
    /\ Bottom(outer) >= Bottom(inner)

\* C1: after A.extend_bounding_box(B), for boxes of non-negative width and
\* height, A has Left = min of the lefts, Top = min of the tops, Left+Width =
\* max of the rights, Top+Height = max of the bottoms; it covers the original
\* A and B, and every box that covers both covers it (it is the minimal one).
C1_UnionIsMinimalCover ==
    gArgs # <<>> =>
        LET A == gBefore[1]
            B == gArgs[1].BoundingBox
            R == geo.BoundingBox
        IN  /\ R.Left = Min(A.Left, B.Left)
            /\ R.Top = Min(A.Top, B.Top)
            /\ Right(R) = Max(Right(A), Right(B))
            /\ Bottom(R) = Max(Bottom(A), Bottom(B))
            /\ Covers(R, A)
            /\ Covers(R, B)
            /\ \A X \in GridBoxes : Covers(X, A) /\ Covers(X, B) => Covers(X, R)

\* C1 witness: an extension by a box that sticks out on the left and on the
\* right of the original, so that Left and Width both change
C1_Witness ==
    /\ gArgs # <<>>
    /\ gArgs[1].BoundingBox.Left < gBefore[1].Left
    /\ Right(gArgs[1].BoundingBox) > Right(gBefore[1])
    /\ geo.BoundingBox.Left = gArgs[1].BoundingBox.Left
    /\ geo.BoundingBox.Width > gBefore[1].Width

\* C2: the box obtained by extending over a collection of boxes does not depend
\* on the order or the multiplicity of the extensions: extending is idempotent
\* (A with A, and the result with an argument already applied), commutative
\* (A with B against B with A) and associative (for every further box C,
\* (A with B) with C against A with (B with C), and C applied before B).
C2_UnionOrderIndependent ==
    LET R == geo.BoundingBox
    IN  /\ extend_bounding_box(R, R) = R
        /\ gArgs # <<>> =>
              LET A == gBefore[1]
                  B == gArgs[1].BoundingBox
              IN  /\ extend_bounding_box(R, B) = R
                  /\ extend_bounding_box(R, A) = R
                  /\ extend_bounding_box(B, A) = R
                  /\ \A C \in GridBoxes :
                        /\ extend_bounding_box(R, C)
                             = extend_bounding_box(A, extend_bounding_box(B, C))
                        /\ extend_bounding_box(R, C)
                             = extend_bounding_box(extend_bounding_box(A, C), B)

\* C2 witness: two different overlapping-free boxes have been united, neither
\* of which covers the other
C2_Witness ==
    /\ gArgs # <<>>
    /\ ~Covers(gBefore[1], gArgs[1].BoundingBox)
    /\ ~Covers(gArgs[1].BoundingBox, gBefore[1])
    /\ extend_bounding_box(gArgs[1].BoundingBox, gBefore[1]) = geo.BoundingBox

\* C3: after construction and after any sequence of extend_geometry calls, the
\* Polygon of a Geometry is the four corners of its own BoundingBox in the order
\* top-left, top-right, bottom-right, bottom-left.
C3_PolygonIsCornersOfBox ==
    LET b == geo.BoundingBox
    IN  geo.Polygon = << [X |-> b.Left, Y |-> b.Top],
                         [X |-> b.Left + b.Width, Y |-> b.Top],
                         [X |-> b.Left + b.Width, Y |-> b.Top + b.Height],
                         [X |-> b.Left, Y |-> b.Top + b.Height] >>

\* C3 witness: an extension that changed the box, with the polygon following it
C3_Witness ==
    /\ gArgs # <<>>
    /\ geo.BoundingBox # gBefore[1]
    /\ geo.Polygon[1] = [X |-> geo.BoundingBox.Left, Y |-> geo.BoundingBox.Top]
    /\ geo.Polygon[3].X = Right(geo.BoundingBox)
    /\ geo.Polygon[3].X # gBefore[1].Left + gBefore[1].Width

-----------------------------------------------------------------------------
(* Claims about plumber_line_to_blocks, checked under SpecLine *)

\* the Geometry object a block refers to
GeometryOf(block) == heap[block.Geometry[1]]

\* C4: Block.extend_geometry on a block without geometry stores a deep copy of
\* its argument, so extending the LINE never changes a WORD: while
\* plumber_line_to_blocks runs and after it returns, the LINE's Geometry is an
\* object of its own and every WORD block's geometry (the first WORD's too) is
\* the geometry computed from its own token.
C4_WordGeometryUntouched ==
    /\ \A i \in 1..Len(block_word_list) :
          /\ GeometryOf(block_word_list[i])
               = get_geometry_from_plumber_word(plumber_line[i], page_width, page_height)
          /\ block_line[1].Geometry # block_word_list[i].Geometry
    /\ lpc = "done" =>
          /\ Len(ret_blocks) = Len(plumber_line) + 1
          /\ \A i \in 1..Len(plumber_line) :
                GeometryOf(ret_blocks[i + 1])
                  = get_geometry_from_plumber_word(plumber_line[i], page_width, page_height)

\* C4 witness: a returned line of two or more words whose LINE geometry has
\* grown beyond the first WORD's, the first WORD still having its token's box
C4_Witness ==
    /\ lpc = "done"
    /\ Len(plumber_line) >= 2
    /\ GeometryOf(ret_blocks[1]) # GeometryOf(ret_blocks[2])
    /\ GeometryOf(ret_blocks[2])
         = get_geometry_from_plumber_word(plumber_line[1], page_width, page_height)

-----------------------------------------------------------------------------
(* Claims about is_scanned_pdf and get_pdf_blocks, checked under SpecSel *)

\* the summed area of the images imgs[1..n]
RECURSIVE AreaUpTo(_, _)
AreaUpTo(imgs, n) ==
    IF n = 0 THEN 0 ELSE AreaUpTo(imgs, n - 1) + imgs[n].width * imgs[n].height

\* C5: is_scanned_pdf returns true exactly when the page has at least one image
\* and the summed image area is at least a quarter of the page area (a ratio of
\* exactly 0.25 counts); it returns false for no image and for a lower ratio.
C5_ScannedIffQuarterOfPage ==
    page_images # <<>> =>
        LET imgs == page_images[1]
            area == AreaUpTo(imgs, Len(imgs))
            page_size == pdf_page[1].width * pdf_page[1].height
        IN  /\ scanned <=> (Len(imgs) >= 1 /\ 4 * area >= page_size)
            /\ Len(imgs) = 0 => ~scanned
            /\ 4 * area < page_size => ~scanned

\* C5 witness: two images whose areas add up to exactly a quarter of the page
C5_Witness ==
    /\ page_images # <<>>
    /\ Len(page_images[1]) = 2
    /\ 4 * AreaUpTo(page_images[1], 2) = pdf_page[1].width * pdf_page[1].height
    /\ scanned

\* the calls of the native path that can raise
NativeFailures == { "extract_text", "extract_words" }

\* C6: a readable page goes to the OCR path when use_textract_only is set or
\* is_scanned_pdf is true and to the native path otherwise; the returned
\* is_native_pdf is true if and only if the native path was chosen and
\* blocks_from_native_pdf returned without raising, and it is false whenever
\* the returned blocks come from the OCR path.
C6_RouteAndNativeFlag ==
    /\ route # "none" =>
          /\ pdf_page # <<>>
          /\ route = "ocr" <=> (use_textract_only \/ scanned)
          /\ route = "native" <=> ~(use_textract_only \/ scanned)
    /\ is_native_pdf => route = "native" /\ blocks_from = "native"
    /\ spc = "return" =>
          /\ is_native_pdf <=> (route = "native" /\ failure \notin NativeFailures)
          /\ blocks_from = "ocr" => ~is_native_pdf
          /\ blocks_from \in { "ocr", "native" }

\* C6 witness: a page with images below the threshold, no override, has gone
\* through the native path and returned blocks with the flag set
C6_Witness ==
    /\ spc = "return"
    /\ ~use_textract_only
    /\ page_images # <<>> /\ page_images[1] # <<>>
    /\ route = "native"
    /\ is_native_pdf
    /\ blocks # <<>>

\* C7: when the native path raises (no override, page not image-dominated), the
\* page goes to the OCR path: the blocks returned are those assigned from
\* blocks_from_scanned_pdf, in its one call, and is_native_pdf is false.
C7_NativeErrorFallsBackToOcr ==
    failure \in NativeFailures =>
        /\ ~use_textract_only /\ ~scanned /\ route = "native"
        /\ ~is_native_pdf
        /\ spc \in { "except", "ocr", "textract", "return", "raised" }
        /\ spc \in { "ocr", "textract", "return", "raised" } => handler
        /\ spc = "return" =>
              /\ blocks_from = "ocr"
              /\ ocr_entries = 1
              /\ textract_requests = 1
              /\ blocks = blocks_from_textract(textract[1], page_num,
                                               SubSeq(heap, 1, Len(heap) - Len(blocks))).blocks

\* C7 witness: extract_words raised and the call returned the OCR blocks
C7_Witness ==
    /\ failure = "extract_words"
    /\ spc = "return"
    /\ blocks # <<>>
    /\ blocks_from = "ocr"
    /\ ~is_native_pdf

\* C8: in one invocation of get_pdf_blocks the OCR path
\* (blocks_from_scanned_pdf) is entered at most once.
C8_OcrEnteredAtMostOnce == ocr_entries <= 1

\* the regions of a response that are LINE or WORD regions
TextRegions(result) ==
    { i \in 1..Len(result.Blocks) : result.Blocks[i].BlockType \in { "LINE", "WORD" } }

Lacking(region) == "Text" \notin region.Keys \/ "Geometry" \notin region.Keys

\* the ids the first CHILD relationship of a region lists
ChildIds(region) ==
    IF "Relationships" \notin region.Keys THEN <<>>
    ELSE LET child == { i \in 1..Len(region.Relationships) :
                          region.Relationships[i].Type = "CHILD" }
         IN  IF child = {} THEN <<>>
             ELSE region.Relationships[CHOOSE i \in child : \A j \in child : i <= j].Ids

\* the WORD region a child id resolves to: the last one of that Id
WordAt(result, id) ==
    { i \in 1..Len(result.Blocks) :
        /\ result.Blocks[i].BlockType = "WORD" /\ result.Blocks[i].Id = id
        /\ \A j \in (i + 1)..Len(result.Blocks) :
              ~(result.Blocks[j].BlockType = "WORD" /\ result.Blocks[j].Id = id) }

\* a LINE of the response lists a WORD id that the response does not hold
DanglingChild(result) ==
    \E i \in 1..Len(result.Blocks) :
        /\ result.Blocks[i].BlockType = "LINE"
        /\ \E k \in 1..Len(ChildIds(result.Blocks[i])) :
              WordAt(result, ChildIds(result.Blocks[i])[k]) = {}

\* C9 as stated: when the OCR request raises, the response has no Blocks, a
\* (LINE or WORD) region lacks Text or Geometry, or a LINE lists a WORD id that
\* is not in the response, get_pdf_blocks returns no blocks and
\* is_native_pdf false.
C9_FaultyResponseGivesNoBlocks ==
    (spc = "return" /\ blocks_from = "ocr") =>
        LET outcome == textract[1]
            result == outcome.result
        IN  ( \/ outcome.raised
              \/ "Blocks" \notin result.Keys
              \/ \E i \in TextRegions(result) : Lacking(result.Blocks[i])
              \/ DanglingChild(result) )
            => (blocks = <<>> /\ ~is_native_pdf)

\* a response the converter cannot convert: a LINE region lacks Text or
\* Geometry, or the first CHILD relationship of a LINE lists an id whose WORD
\* region is not in the response or lacks Text or Geometry
Unconvertible(result) ==
    \/ "Blocks" \notin result.Keys
    \/ \E i \in 1..Len(result.Blocks) :
          /\ result.Blocks[i].BlockType = "LINE"
          /\ \/ Lacking(result.Blocks[i])
             \/ \E k \in 1..Len(ChildIds(result.Blocks[i])) :
                   LET at == WordAt(result, ChildIds(result.Blocks[i])[k])
                   IN  at = {} \/ \E j \in at : Lacking(result.Blocks[j])

\* the blocks a convertible response gives: its LINEs and their listed children
RECURSIVE ConvertedCount(_, _)
ConvertedCount(result, n) ==
    IF n = 0 THEN 0
    ELSE ConvertedCount(result, n - 1)
           + (IF result.Blocks[n].BlockType = "LINE"
              THEN 1 + Len(ChildIds(result.Blocks[n])) ELSE 0)

\* C9 amended: when the OCR request raises or its response cannot be converted
\* (no Blocks; a LINE region, or a WORD region listed in a LINE's first CHILD
\* relationship, lacks Text or Geometry; a LINE lists a WORD id that is not in
\* the response), the blocks returned are empty, never the part converted so
\* far, and is_native_pdf is false; any other response is converted whole.
C9_UnconvertibleResponseGivesNoBlocks ==
    (spc = "return" /\ blocks_from = "ocr") =>
        LET outcome == textract[1]
            result == outcome.result
        IN  /\ ~is_native_pdf
            /\ (outcome.raised \/ Unconvertible(result)) => blocks = <<>>
            /\ ~(outcome.raised \/ Unconvertible(result))
                  => Len(blocks) = ConvertedCount(result, Len(result.Blocks))

\* C9 witness: the response has a sound LINE L1 listing W1, and W1 lacks Text:
\* the conversion fails after L1 has been converted, and nothing is returned
C9_Witness ==
    /\ spc = "return" /\ blocks_from = "ocr"
    /\ ~textract[1].raised
    /\ \E i \in 1..Len(textract[1].result.Blocks) :
          LET region == textract[1].result.Blocks[i]
          IN  /\ region.BlockType = "LINE" /\ ~Lacking(region)
              /\ ChildIds(region) = << "W1" >>
    /\ \E j \in WordAt(textract[1].result, "W1") :
          "Text" \notin textract[1].result.Blocks[j].Keys
    /\ blocks = <<>>
    /\ ~is_native_pdf

\* the failures to read the page: pdfplumber.open or pdf.pages[page_num - 1]
PageReadFailures == { "open", "page" }

\* C10 as stated: after a page-read failure get_pdf_blocks never returns a
\* block list.
C10_PageReadFailureNeverReturns ==
    failure \in PageReadFailures => spc # "return"

\* C10 amended: a page-read failure is caught and the page goes to the OCR
\* path: the call returns the blocks of blocks_from_scanned_pdf, entered once,
\* with is_native_pdf false, and it raises to the caller only when the
\* page-to-PNG conversion in blocks_from_scanned_pdf raises, before any
\* request to the OCR service.
C10_PageReadFailureFallsBackToOcr ==
    failure \in PageReadFailures =>
        /\ route = "none"
        /\ ~is_native_pdf
        /\ spc \in { "except", "ocr", "textract", "return", "raised" }
        /\ spc \in { "ocr", "textract", "return", "raised" } => handler
        /\ spc = "return" =>
              blocks_from = "ocr" /\ ocr_entries = 1 /\ textract_requests = 1
        /\ spc = "raised" => ocr_entries = 1 /\ textract_requests = 0

\* C10 witness: pdfplumber.open raised and the call returned OCR blocks
C10_Witness ==
    /\ failure = "open"
    /\ spc = "return"
    /\ blocks_from = "ocr"
    /\ blocks # <<>>
    /\ ~is_native_pdf

-----------------------------------------------------------------------------
(* Claims about the OCR conversion, checked under SpecSel *)

\* the call has returned the conversion of a response that can be converted
OcrConverted ==
    /\ spc = "return" /\ blocks_from = "ocr"
    /\ ~textract[1].raised
    /\ ~Unconvertible(textract[1].result)

\* the place in the returned list of the block made from the LINE region
\* result.Blocks[n]: after the LINEs before it and their listed children
LinePosition(result, n) == ConvertedCount(result, n - 1) + 1

\* the block carries the Id, the Text and the BoundingBox of the region
Mirrors(block, region) ==
    /\ block.Id = region.Id
    /\ block.Text = region.Text
    /\ GeometryOf(block).BoundingBox.Left = region.BoundingBox.Left
    /\ GeometryOf(block).BoundingBox.Top = region.BoundingBox.Top
    /\ GeometryOf(block).BoundingBox.Width = region.BoundingBox.Width
    /\ GeometryOf(block).BoundingBox.Height = region.BoundingBox.Height

\* C11: for a well-formed response the returned list is, for every LINE region
\* in the order of the response, one LINE block with the region's Id, Text and
\* BoundingBox, followed by one WORD block per id of the LINE's CHILD list in
\* the order of that list, each with the Id, Text and BoundingBox of the WORD
\* region of that id and with the LINE's blockIndex as parentBlockIndex; and
\* nothing else.
C11_OcrBlocksMirrorRegions ==
    OcrConverted =>
        LET result == textract[1].result
        IN  /\ Len(blocks) = ConvertedCount(result, Len(result.Blocks))
            /\ \A n \in 1..Len(result.Blocks) :
                  result.Blocks[n].BlockType = "LINE" =>
                      LET region == result.Blocks[n]
                          p == LinePosition(result, n)
                          children == ChildIds(region)
                      IN  /\ blocks[p].BlockType = "LINE"
                          /\ Mirrors(blocks[p], region)
                          /\ \A k \in 1..Len(children) :
                                /\ blocks[p + k].BlockType = "WORD"
                                /\ blocks[p + k].Id = children[k]
                                /\ blocks[p + k].parentBlockIndex = blocks[p].blockIndex
                                /\ \E j \in WordAt(result, children[k]) :
                                      Mirrors(blocks[p + k], result.Blocks[j])

\* C11 witness: two LINE regions, the first listing W1 then W2, the second
\* W2 then W1: six blocks, L1 W1 W2 L2 W2 W1
C11_Witness ==
    /\ OcrConverted
    /\ Len(blocks) = 6
    /\ blocks[1].Id = "L1" /\ blocks[2].Id = "W1" /\ blocks[3].Id = "W2"
    /\ blocks[4].Id = "L2" /\ blocks[5].Id = "W2" /\ blocks[6].Id = "W1"
    /\ blocks[5].parentBlockIndex = blocks[4].blockIndex
    /\ blocks[2].parentBlockIndex = blocks[1].blockIndex

\* the relationships of a list that are of type CHILD
ChildPlaces(list) == { i \in 1..Len(list) : list[i].Type = "CHILD" }

\* C12: the LINE block of a region that has a Relationships list carries one
\* relationship, of type CHILD, whose Ids are the Ids of the first relationship
\* of type CHILD of that list, in order; relationships of other types and later
\* CHILD relationships add nothing, and the Ids are empty when the list is
\* empty or has no CHILD relationship.  A region without the key gets none.
C12_FirstChildRelationshipOnly ==
    OcrConverted =>
        LET result == textract[1].result
        IN  \A n \in 1..Len(result.Blocks) :
              result.Blocks[n].BlockType = "LINE" =>
                  LET region == result.Blocks[n]
                      made == blocks[LinePosition(result, n)].Relationships
                      list == region.Relationships
                  IN  /\ LinePosition(result, n) \in 1..Len(blocks)
                      /\ IF "Relationships" \notin region.Keys THEN made = <<>>
                         ELSE
                           /\ Len(made) = 1
                           /\ made[1].Type = "CHILD"
                           /\ ChildPlaces(list) = {} => made[1].Ids = <<>>
                           /\ \A i \in ChildPlaces(list) :
                                 (\A j \in ChildPlaces(list) : i <= j) => made[1].Ids = list[i].Ids

\* C12 witness: a region with two CHILD relationships, W1 and then W2, has
\* become a LINE block whose only child is W1; the WORD W2 is not emitted
C12_Witness ==
    /\ OcrConverted
    /\ \E n \in 1..Len(textract[1].result.Blocks) :
          LET region == textract[1].result.Blocks[n]
          IN  /\ region.BlockType = "LINE"
              /\ Cardinality(ChildPlaces(region.Relationships)) = 2
              /\ blocks[LinePosition(textract[1].result, n)].Relationships[1].Ids = << "W1" >>
    /\ \A p \in 1..Len(blocks) : blocks[p].Id # "W2"

-----------------------------------------------------------------------------
(* Claims about the native path, checked under SpecSel *)

\* the call has returned the blocks of blocks_from_native_pdf
NativeReturned == spc = "return" /\ blocks_from = "native"

\* the whitespace-delimited words of the text lines lines[k..], in order
RECURSIVE WordsFrom(_, _)
WordsFrom(lines, k) ==
    IF k > Len(lines) THEN <<>>
    ELSE SplitWhitespace(lines[k]) \o WordsFrom(lines, k + 1)

\* the position-tokens are exactly the words of the text lines, in order
TokensAreWords ==
    LET lines == text_lines(native_in[1].text)
        words == native_in[1].words
    IN  /\ lines # <<>>
        /\ [i \in 1..Len(words) |-> words[i].text] = WordsFrom(lines, 1)

\* the number of words of the text lines before lines[k]
RECURSIVE WordsBefore(_, _)
WordsBefore(lines, k) ==
    IF k <= 1 THEN 0 ELSE WordsBefore(lines, k - 1) + Len(SplitWhitespace(lines[k - 1]))

\* C13: when the position-tokens are exactly the whitespace-delimited words of
\* the text lines, the returned list holds one LINE block per text line, in
\* order, whose Text is the line's words joined by a space, each followed by
\* one WORD block per word of that line, in order, with the token's text, the
\* LINE's blockIndex as parentBlockIndex and its Id in the LINE's CHILD list.
C13_ExactTokensGiveLinePerTextLine ==
    (NativeReturned /\ TokensAreWords) =>
        LET lines == text_lines(native_in[1].text)
            words == native_in[1].words
        IN  /\ Len(blocks) = Len(lines) + Len(words)
            /\ \A k \in 1..Len(lines) :
                  LET line_words == SplitWhitespace(lines[k])
                      p == k + WordsBefore(lines, k)
                  IN  /\ blocks[p].BlockType = "LINE"
                      /\ blocks[p].Text = Join(line_words, << " " >>)
                      /\ Len(blocks[p].Relationships) = 1
                      /\ Len(blocks[p].Relationships[1].Ids) = Len(line_words)
                      /\ \A j \in 1..Len(line_words) :
                            /\ blocks[p + j].BlockType = "WORD"
                            /\ blocks[p + j].Text = line_words[j]
                            /\ blocks[p + j].Text = words[WordsBefore(lines, k) + j].text
                            /\ blocks[p + j].parentBlockIndex = blocks[p].blockIndex
                            /\ blocks[p].Relationships[1].Ids[j] = blocks[p + j].Id

\* C13 witness: two text lines of one word each and their two tokens have
\* given LINE, WORD, LINE, WORD
C13_Witness ==
    /\ NativeReturned /\ TokensAreWords
    /\ Len(text_lines(native_in[1].text)) = 2
    /\ Len(blocks) = 4
    /\ blocks[1].BlockType = "LINE" /\ blocks[1].Text = << "H", "i" >>
    /\ blocks[3].BlockType = "LINE" /\ blocks[3].Text = << "y", "o", "u" >>
    /\ blocks[4].BlockType = "WORD" /\ blocks[4].parentBlockIndex = blocks[3].blockIndex

\* C14 as stated, in its weakest reading: the Text of every LINE block of the
\* native path is the space-joined word list of a text line of the page.
C14_LineTextIsTextLineWords ==
    NativeReturned =>
        \A p \in 1..Len(blocks) :
            blocks[p].BlockType = "LINE" =>
                \E k \in 1..Len(text_lines(native_in[1].text)) :
                    blocks[p].Text
                      = Join(SplitWhitespace(text_lines(native_in[1].text)[k]), << " " >>)

\* C14 amended: the Text of every LINE block of the native path is the
\* space-joined concatenation of the texts of the tokens assigned to it, that
\* is of its WORD children in order; it is the text line's own word list only
\* when the tokens are the line's words.
C14_LineTextIsTokenTexts ==
    NativeReturned =>
        \A p \in 1..Len(blocks) :
            blocks[p].BlockType = "LINE" =>
                LET n == Len(blocks[p].Relationships[1].Ids)
                IN  /\ p + n <= Len(blocks)
                    /\ \A j \in 1..n :
                          /\ blocks[p + j].BlockType = "WORD"
                          /\ blocks[p + j].Id = blocks[p].Relationships[1].Ids[j]
                    /\ blocks[p].Text = Join([j \in 1..n |-> blocks[p + j].Text], << " " >>)

\* C14 witness: the one line-word "Hiyou" is split across the tokens "Hi" and
\* "you", and the LINE's Text is "Hi you"
C14_Witness ==
    /\ NativeReturned
    /\ native_in[1].text = << "H", "i", "y", "o", "u" >>
    /\ Len(blocks) = 3
    /\ blocks[1].BlockType = "LINE"
    /\ blocks[1].Text = << "H", "i", " ", "y", "o", "u" >>
    /\ blocks[2].Text = << "H", "i" >> /\ blocks[3].Text = << "y", "o", "u" >>

-----------------------------------------------------------------------------
(* Claims about the block list of either path, checked under SpecSel *)

\* the Ids of the WORD blocks of bs[1..n] whose parentBlockIndex is index
RECURSIVE WordIdsUnder(_, _, _)
WordIdsUnder(bs, index, n) ==
    IF n = 0 THEN <<>>
    ELSE WordIdsUnder(bs, index, n - 1)
           \o (IF bs[n].BlockType = "WORD" /\ bs[n].parentBlockIndex = index
               THEN << bs[n].Id >> ELSE <<>>)

\* the Ids of the CHILD relationship of a block, none if it has no relationship
ChildIdsOfBlock(block) ==
    IF block.Relationships = <<>> THEN <<>> ELSE block.Relationships[1].Ids

\* C15: in the list get_pdf_blocks returns, from either path, the
\* parentBlockIndex of every WORD block is the blockIndex of a LINE block
\* earlier in the list, and the Ids of every LINE block's CHILD relationship
\* are the Ids, in list order, of the WORD blocks whose parentBlockIndex is
\* that LINE's blockIndex (a LINE without the relationship has no such WORD).
C15_ParentAndChildLinksAgree ==
    spc = "return" =>
        /\ \A p \in 1..Len(blocks) :
              blocks[p].BlockType = "WORD" =>
                  \E q \in 1..(p - 1) :
                      /\ blocks[q].BlockType = "LINE"
                      /\ blocks[q].blockIndex = blocks[p].parentBlockIndex
        /\ \A q \in 1..Len(blocks) :
              blocks[q].BlockType = "LINE" =>
                  /\ Len(blocks[q].Relationships) <= 1
                  /\ \A r \in 1..Len(blocks[q].Relationships) :
                        blocks[q].Relationships[r].Type = "CHILD"
                  /\ ChildIdsOfBlock(blocks[q])
                       = WordIdsUnder(blocks, blocks[q].blockIndex, Len(blocks))

\* C15 witness: a native page of one line and one word: the LINE's CHILD list
\* is that WORD's Id and nothing else
C15_Witness ==
    /\ NativeReturned
    /\ Len(blocks) = 2
    /\ blocks[1].BlockType = "LINE" /\ blocks[2].BlockType = "WORD"
    /\ blocks[2].parentBlockIndex = blocks[1].blockIndex
    /\ blocks[1].Relationships = << Relationship(<< blocks[2].Id >>, "CHILD") >>

-----------------------------------------------------------------------------
(* Claims about the geometry of a line, checked under SpecLine *)

\* the box is the token's pixel box divided by the page width and height; a
\* coordinate c of the box stands for c / (page_width * page_height)
IsTokenBox(box, token) ==
    /\ box.Left * page_width = token.x0 * (page_width * page_height)
    /\ box.Width * page_width = (token.x1 - token.x0) * (page_width * page_height)
    /\ box.Top * page_height = token.top * (page_width * page_height)
    /\ box.Height * page_height = (token.bottom - token.top) * (page_width * page_height)

\* C16: the LINE block plumber_line_to_blocks returns has the union of the
\* boxes of its WORD children as bounding box: the least left and top and the
\* greatest right and bottom among them; and each WORD box is the token's
\* pixel box divided by the page width and height.
C16_LineBoxIsUnionOfWordBoxes ==
    lpc = "done" =>
        LET line == GeometryOf(ret_blocks[1]).BoundingBox
            word(i) == GeometryOf(ret_blocks[i + 1]).BoundingBox
            n == Len(plumber_line)
        IN  /\ Len(ret_blocks) = n + 1
            /\ \A i \in 1..n : IsTokenBox(word(i), plumber_line[i])
            /\ \A i \in 1..n :
                  /\ line.Left <= word(i).Left /\ line.Top <= word(i).Top
                  /\ Right(line) >= Right(word(i)) /\ Bottom(line) >= Bottom(word(i))
            /\ \E i \in 1..n : line.Left = word(i).Left
            /\ \E i \in 1..n : line.Top = word(i).Top
            /\ \E i \in 1..n : Right(line) = Right(word(i))
            /\ \E i \in 1..n : Bottom(line) = Bottom(word(i))

\* C16 witness: two tokens side by side, the second one first in the line: the
\* LINE's box starts at the second WORD's left and is wider than either WORD's
C16_Witness ==
    /\ lpc = "done"
    /\ Len(plumber_line) = 2
    /\ plumber_line[1].x0 > plumber_line[2].x0
    /\ LET line == GeometryOf(ret_blocks[1]).BoundingBox
       IN  /\ line.Left = GeometryOf(ret_blocks[3]).BoundingBox.Left
           /\ line.Width > GeometryOf(ret_blocks[2]).BoundingBox.Width
           /\ line.Width > GeometryOf(ret_blocks[3]).BoundingBox.Width
           /\ Right(line) = Right(GeometryOf(ret_blocks[2]).BoundingBox)

-----------------------------------------------------------------------------
(* Claims about pages without text, checked under SpecSel *)

\* the text extract_text returned is absent, empty or only whitespace
BlankText ==
    /\ native_in # <<>>
    /\ \A i \in 1..Len(native_in[1].text) : native_in[1].text[i] \in Whitespace

\* C17: a native page whose extracted text is absent, empty or only whitespace
\* gives no blocks and no error: get_pdf_blocks returns the empty list of
\* blocks_from_native_pdf with is_native_pdf true, and neither the except
\* clause nor the OCR path is entered.
C17_BlankPageGivesNoBlocks ==
    BlankText =>
        /\ spc = "return"
        /\ route = "native"
        /\ blocks = <<>>
        /\ blocks_from = "native"
        /\ is_native_pdf
        /\ failure = "none" /\ ~handler
        /\ ocr_entries = 0 /\ textract_requests = 0

\* C17 witness: a page whose text is a blank and a newline has returned
C17_Witness ==
    /\ native_in # <<>>
    /\ native_in[1].text = << " ", "\n" >>
    /\ spc = "return"
    /\ blocks = <<>>
    /\ is_native_pdf
    /\ ocr_entries = 0

-----------------------------------------------------------------------------
(* Claims about lambda_handler, checked under SpecHandler *)

\* the event names both a primary and a secondary annotation file
BothAnnotationRefs ==
    /\ event.primary_annotation_ref # None
    /\ event.secondary_annotation_ref # None

\* C18 as stated: given both references, the blocks are those of the
\* annotation file modified last (the primary on a tie), the task object's
\* primaryAnnotationS3Ref names that file and its secondaryAnnotationS3Ref the
\* other one.
C18_BlocksAndRefsOfLatestFile ==
    (hpc = "return" /\ BothAnnotationRefs) =>
        LET primary == s3_objects.primary
            secondary == s3_objects.secondary
            task == output[1].taskObject
        IN  /\ primary.LastModified >= secondary.LastModified =>
                  /\ pdf_blocks = primary.Blocks
                  /\ task.primaryAnnotationS3Ref = << PrimaryRef >>
                  /\ task.secondaryAnnotationS3Ref = << SecondaryRef >>
            /\ secondary.LastModified > primary.LastModified =>
                  /\ pdf_blocks = secondary.Blocks
                  /\ task.primaryAnnotationS3Ref = << SecondaryRef >>
                  /\ task.secondaryAnnotationS3Ref = << PrimaryRef >>

\* C18 amended: given both references, the annotation file read is the one
\* modified last (the primary on a tie).  If it holds blocks, they are the
\* blocks used, primaryAnnotationS3Ref names that file and
\* secondaryAnnotationS3Ref the other one: the references are swapped exactly
\* when the secondary is strictly newer.  If it holds no blocks, both
\* references are removed and the blocks are those of get_pdf_blocks.
C18_LatestFileWithBlocksIsPrimary ==
    (hpc = "return" /\ BothAnnotationRefs) =>
        LET primary == s3_objects.primary
            secondary == s3_objects.secondary
            newer == secondary.LastModified > primary.LastModified
            latest == IF newer THEN secondary ELSE primary
            task == output[1].taskObject
        IN  /\ annotation_bytes = (IF newer THEN << SecondaryRef >> ELSE << PrimaryRef >>)
            /\ latest.Blocks # <<>> =>
                  /\ ~do_ocr
                  /\ pdf_blocks = latest.Blocks
                  /\ task.primaryAnnotationS3Ref
                       = (IF newer THEN << SecondaryRef >> ELSE << PrimaryRef >>)
                  /\ task.secondaryAnnotationS3Ref
                       = (IF newer THEN << PrimaryRef >> ELSE << SecondaryRef >>)
            /\ latest.Blocks = <<>> =>
                  /\ do_ocr
                  /\ pdf_blocks \in { r.blocks : r \in GetPdfBlocksResults }
                  /\ task.primaryAnnotationS3Ref = None
                  /\ task.secondaryAnnotationS3Ref = None

\* C18 witness: the secondary file is strictly newer and holds blocks, the
\* primary holds blocks too: the call has returned the secondary's blocks with
\* the two references swapped
C18_Witness ==
    /\ hpc = "return" /\ BothAnnotationRefs
    /\ s3_objects.secondary.LastModified > s3_objects.primary.LastModified
    /\ s3_objects.primary.Blocks # <<>>
    /\ pdf_blocks = s3_objects.secondary.Blocks /\ pdf_blocks # <<>>
    /\ output[1].taskObject.primaryAnnotationS3Ref = << SecondaryRef >>
    /\ output[1].taskObject.secondaryAnnotationS3Ref = << PrimaryRef >>

\* C19: for an event whose dataObject has no source-ref, lambda_handler ends
\* by returning an output whose humanAnnotationRequired is "false".
C19_NoSourceRefMarksFailed ==
    (hpc \in { "return", "raised" } /\ event.source_ref = None) =>
        /\ hpc = "return"
        /\ output[1].humanAnnotationRequired = "false"

-----------------------------------------------------------------------------
(* Claims about remove_block_indices_from_blocks, checked under SpecRemove *)

ConstructionKeys == { "parentBlockIndex", "blockIndex" }

\* C20: after remove_block_indices_from_blocks no block has parentBlockIndex
\* or blockIndex, every other key of every block has the value it had, the
\* blocks are as many and in the same order, and a second call changes nothing.
C20_OnlyIndicesRemoved ==
    remove_calls >= 1 =>
        /\ Len(json_blocks) = Len(json_blocks_in)
        /\ \A i \in 1..Len(json_blocks) :
              /\ DOMAIN json_blocks[i] = (DOMAIN json_blocks_in[i]) \ ConstructionKeys
              /\ \A k \in DOMAIN json_blocks[i] : json_blocks[i][k] = json_blocks_in[i][k]
        /\ remove_calls >= 2 => json_blocks = json_blocks_prev

\* C20 witness: two blocks, a LINE with blockIndex alone and a WORD with both
\* indices, after two calls: the first call changed the list, the second did not
C20_Witness ==
    /\ remove_calls = 2
    /\ Len(json_blocks_in) = 2
    /\ DOMAIN json_blocks_in[1] = { "BlockType", "Text", "blockIndex" }
    /\ ConstructionKeys \subseteq DOMAIN json_blocks_in[2]
    /\ json_blocks_in[1].BlockType = "LINE" /\ json_blocks_in[2].BlockType = "WORD"
    /\ json_blocks # json_blocks_in
    /\ json_blocks = json_blocks_prev

-----------------------------------------------------------------------------
(* The alignment loop of blocks_from_native_pdf *)

\* a token whose text occurs in no word of the text lines
UnmatchedToken(token) ==
    \A i \in 1..Len(al_lines) :
        LET line_words == SplitWhitespace(al_lines[i])
        IN  \A j \in 1..Len(line_words) : Find(line_words[j], token.text) = -1

\* C21: for any non-empty list of text lines and any list of tokens the
\* alignment loop is left after finitely many iterations, with the token
\* cursor at the end of the token list
C21_AlignmentLoopTerminates ==
    <>(apc = "done" /\ al.token_block_list_idx = Len(al_words))

\* the loop has been left for two tokens of which one occurs in no line-word,
\* after an iteration that took the no-match branch at the last line-word
C21_Witness ==
    /\ apc = "done"
    /\ al.token_block_list_idx = Len(al_words)
    /\ Len(al_words) = 2
    /\ \E i \in 1..Len(al_words) : UnmatchedToken(al_words[i])
    /\ al.line_index = Len(al_lines) - 1
    /\ al.word_index = Len(al.line_words) - 1
    /\ al.token_sub_search_index = 0

IsWordBlock(b) == b.BlockType = "WORD"

\* C22: when the page text has a non-empty line, the WORD blocks of the list
\* blocks_from_native_pdf returns are the position-tokens, one block per token
\* and in the tokens' order: as many WORD blocks as tokens, the i-th with the
\* text and the box of the i-th token, and no two with the same Id.
C22_WordBlocksAreTheTokensInOrder ==
    (NativeReturned /\ text_lines(native_in[1].text) # <<>>) =>
        LET words == native_in[1].words
            word_blocks == SelectSeq(blocks, IsWordBlock)
        IN  /\ Len(word_blocks) = Len(words)
            /\ \A i \in 1..Len(word_blocks) :
                  /\ i <= Len(words)
                  /\ word_blocks[i].Text = words[i].text
                  /\ word_blocks[i].Geometry # None
                  /\ GeometryOf(word_blocks[i])
                       = get_geometry_from_plumber_word(words[i], pdf_page[1].width,
                                                        pdf_page[1].height)
            /\ \A i, j \in 1..Len(word_blocks) :
                  word_blocks[i].Id = word_blocks[j].Id => i = j

\* C22 witness: the text is the line "Hi" and the tokens are "you", found in no
\* line-word, and "Hi": the list is the LINE and the WORDs "you" and "Hi"
C22_Witness ==
    /\ NativeReturned
    /\ text_lines(native_in[1].text) = << << "H", "i" >> >>
    /\ Len(native_in[1].words) = 2
    /\ native_in[1].words[1].text = << "y", "o", "u" >>
    /\ native_in[1].words[2].text = << "H", "i" >>
    /\ Len(blocks) = 3
    /\ blocks[2].BlockType = "WORD" /\ blocks[2].Text = << "y", "o", "u" >>
    /\ blocks[3].BlockType = "WORD" /\ blocks[3].Text = << "H", "i" >>

\* C23: in every state of the alignment loop line_index is an index of lines
\* and word_index an index of line_words, the words of lines[line_index], so
\* lines[line_index] and line_words[word_index] are never out of range.
C23_CursorsInRange ==
    apc \in { "loop", "done" } =>
        /\ 0 <= al.line_index /\ al.line_index < Len(al_lines)
        /\ 0 <= al.word_index /\ al.word_index < Len(al.line_words)
        /\ al.line_words = SplitWhitespace(al_lines[al.line_index + 1])

\* C23 witness: a no-match iteration at the last word of the last of two
\* lines, where neither cursor can be advanced
C23_Witness ==
    /\ apc = "loop"
    /\ al_branch = "no_match"
    /\ Len(al_lines) = 2
    /\ al.line_index = 1
    /\ Len(al.line_words) = 2
    /\ al.word_index = 1
    /\ al_prev[1].line_index = 1 /\ al_prev[1].word_index = 1

\* the line-word the cursors a point at
CurrentLineWord(a) == a.line_words[a.word_index + 1]

\* the last iteration moved the cursors to another line-word
MovedToNewLineWord ==
    /\ al_prev # <<>>
    /\ \/ al.word_index # al_prev[1].word_index
       \/ al.line_index # al_prev[1].line_index

\* C24: whenever an iteration, of either branch, has advanced word_index or
\* line_index to a new line-word, word_sub_search_index is 0 for the next
\* iteration; and in every state of the loop word_sub_search_index is at most
\* the length of the current line-word.
C24_SubIndexZeroAtNewLineWord ==
    apc \in { "loop", "done" } =>
        /\ MovedToNewLineWord => al.word_sub_search_index = 0
        /\ al.word_sub_search_index <= Len(CurrentLineWord(al))

\* the tokens of plumber_text and plumber_line, in order
RECURSIVE Concat(_)
Concat(seqs) == IF seqs = <<>> THEN <<>> ELSE Head(seqs) \o Concat(Tail(seqs))

AlignedTokens(a) == Concat(a.plumber_text) \o a.plumber_line

\* C25: an iteration that takes the no-match branch leaves the token cursor
\* where it was, appends no token to the current line, and adds to
\* token_sub_search_index the length of the part of the current line-word that
\* was not yet consumed, line_word[word_sub_search_index:].
C25_NoMatchAddsRemainingLength ==
    (apc \in { "loop", "done" } /\ al_branch = "no_match") =>
        LET prev == al_prev[1]
        IN  /\ al.token_block_list_idx = prev.token_block_list_idx
            /\ AlignedTokens(al) = AlignedTokens(prev)
            /\ al.plumber_line \in { prev.plumber_line, <<>> }
            /\ al.token_sub_search_index
                 = prev.token_sub_search_index
                     + Len(SliceFrom(CurrentLineWord(prev), prev.word_sub_search_index))

-----------------------------------------------------------------------------
(* Claims about the shape of the returned list, checked under SpecSel *)

\* C26: every LINE block of the native path has a Geometry and at least one
\* WORD child, which follows it in the list, and there are no more LINE blocks
\* than non-empty text lines: a text line that gathers no token gives no
\* block, and tokens left after the last line-word join the last line.
C26_NativeLinesHaveWords ==
    NativeReturned =>
        /\ \A p \in 1..Len(blocks) :
              blocks[p].BlockType = "LINE" =>
                  /\ blocks[p].Geometry # None
                  /\ ChildIdsOfBlock(blocks[p]) # <<>>
                  /\ p < Len(blocks)
                  /\ blocks[p + 1].BlockType = "WORD"
                  /\ blocks[p + 1].parentBlockIndex = blocks[p].blockIndex
        /\ Len(SelectSeq(blocks, IsLine)) <= Len(text_lines(native_in[1].text))

\* C26 witness: of two text lines "Hi" and "you" the first gathers no token,
\* since the first token is "you", and the token "Hi" left after the last
\* line-word joins the one LINE
C26_Witness ==
    /\ NativeReturned
    /\ Len(text_lines(native_in[1].text)) = 2
    /\ Len(native_in[1].words) = 2
    /\ native_in[1].words[1].text = << "y", "o", "u" >>
    /\ native_in[1].words[2].text = << "H", "i" >>
    /\ Len(SelectSeq(blocks, IsLine)) = 1
    /\ Len(blocks) = 3
    /\ blocks[1].BlockType = "LINE"
    /\ blocks[3].Text = << "H", "i" >> /\ blocks[3].parentBlockIndex = blocks[1].blockIndex

\* the position of the last LINE block of bs[1..p], 0 if there is none
LastLineUpTo(bs, p) ==
    LET at == { q \in 1..p : bs[q].BlockType = "LINE" }
    IN  IF at = {} THEN 0 ELSE CHOOSE q \in at : \A r \in at : q >= r

\* the Ids of the run of WORD blocks of bs that starts at position p
RECURSIVE WordRunIds(_, _)
WordRunIds(bs, p) ==
    IF p > Len(bs) \/ bs[p].BlockType # "WORD" THEN <<>>
    ELSE << bs[p].Id >> \o WordRunIds(bs, p + 1)

\* C27: the list either path returns is flat: the blockIndex of each block is
\* its 0-based position, every block is a LINE or a WORD, a WORD is a child of
\* the nearest LINE before it, and the CHILD Ids of a LINE are the Ids of the
\* WORD blocks that follow it up to the next LINE, in order.
C27_FlatListIndexedByPosition ==
    spc = "return" =>
        \A p \in 1..Len(blocks) :
            /\ blocks[p].blockIndex = p - 1
            /\ blocks[p].BlockType \in { "LINE", "WORD" }
            /\ blocks[p].BlockType = "WORD" =>
                  /\ LastLineUpTo(blocks, p) > 0
                  /\ blocks[p].parentBlockIndex = LastLineUpTo(blocks, p) - 1
            /\ blocks[p].BlockType = "LINE" =>
                  /\ blocks[p].parentBlockIndex = -1
                  /\ ChildIdsOfBlock(blocks[p]) = WordRunIds(blocks, p + 1)

\* C27 witness: the OCR path has returned two LINE blocks of two WORDs each,
\* at positions 0 and 3
C27_Witness ==
    /\ spc = "return"
    /\ blocks_from = "ocr"
    /\ Len(blocks) = 6
    /\ blocks[1].BlockType = "LINE" /\ blocks[4].BlockType = "LINE"
    /\ blocks[4].blockIndex = 3
    /\ blocks[5].parentBlockIndex = 3 /\ blocks[6].parentBlockIndex = 3
    /\ blocks[6].blockIndex = 5

-----------------------------------------------------------------------------
(* Claims about the requests of one get_pdf_blocks call, checked under SpecSel *)

\* C28: in one call of get_pdf_blocks detect_document_text is requested at
\* most once, whichever of the native path, the page conversion and the
\* request itself fail.
C28_TextractRequestedAtMostOnce == textract_requests <= 1

\* C28 witness: the page conversion raised in the first entry of the OCR path
\* and the request raised in the second; the call has returned after one
\* request
C28_Witness ==
    /\ spc = "return"
    /\ failure = "convert"
    /\ ocr_entries = 2
    /\ textract # <<>> /\ textract[1].raised
    /\ textract_requests = 1
    /\ blocks = <<>>

-----------------------------------------------------------------------------
(* Claims about the extraction lambda_handler asks for, checked under SpecHandler *)

\* the annotation file whose Body was read
SelectedAnnotation ==
    IF annotation_bytes = << PrimaryRef >> THEN s3_objects.primary ELSE s3_objects.secondary

\* no primary annotation reference is given, or the selected file has no Blocks
NoAnnotationBlocks ==
    \/ event.primary_annotation_ref = None
    \/ annotation_bytes # <<>> /\ SelectedAnnotation.Blocks = <<>>

\* C29: lambda_handler calls get_pdf_blocks, once, exactly when no primary
\* annotation reference is given or the selected annotation file has no
\* Blocks.  When the selected file has Blocks they are the page blocks and
\* get_pdf_blocks is not called; when it has none, both annotation references
\* of the output are null.
C29_ExtractionIffNoAnnotationBlocks ==
    /\ get_pdf_blocks_calls <= 1
    /\ get_pdf_blocks_calls = 1 => NoAnnotationBlocks
    /\ hpc \in { "output", "return" } =>
          /\ get_pdf_blocks_calls = 1 <=> NoAnnotationBlocks
          /\ ~NoAnnotationBlocks =>
                /\ pdf_blocks = SelectedAnnotation.Blocks
                /\ pdf_type_native = (SelectedAnnotation.DocumentType = NativePDF)
    /\ (hpc = "return" /\ annotation_bytes # <<>> /\ SelectedAnnotation.Blocks = <<>>) =>
          /\ output[1].taskObject.primaryAnnotationS3Ref = None
          /\ output[1].taskObject.secondaryAnnotationS3Ref = None

\* C29 witness: both references are given, the selected file has no Blocks,
\* get_pdf_blocks was called once and gave the page blocks, and the output has
\* neither reference
C29_Witness ==
    /\ hpc = "return"
    /\ event.primary_annotation_ref # None /\ event.secondary_annotation_ref # None
    /\ annotation_bytes = << SecondaryRef >>
    /\ SelectedAnnotation.Blocks = <<>>
    /\ s3_objects.primary.Blocks # <<>>
    /\ get_pdf_blocks_calls = 1
    /\ pdf_blocks = << [Id |-> "L1"] >>
    /\ output[1].taskObject.primaryAnnotationS3Ref = None
    /\ output[1].taskObject.secondaryAnnotationS3Ref = None

-----------------------------------------------------------------------------
(* Claims about the two block_helper modules, checked under SpecBothGeom *)

\* C30: a Geometry of src/block_helper.py and a Geometry of
\* utils/block_helper.py built with the same arguments and given the same
\* extend_geometry calls have the same BoundingBox and the same Polygon, the
\* four corners of that BoundingBox.
C30_BothModulesGiveSameGeometry ==
    /\ geo_legacy.BoundingBox = geo.BoundingBox
    /\ geo_legacy.Polygon = geo.Polygon
    /\ LET b == geo_legacy.BoundingBox
       IN  geo_legacy.Polygon = get_points(b.Width, b.Height, b.Left, b.Top)

====
